---- MODULE Spec2Model ----
(***************************************************************************)
(* Model of the Fitness-Quest storage engine (src/complete_database.h):   *)
(* the CompleteBTree ordered map and the PersistentFitnessDatabase         *)
(* orchestrator built on four such trees.                                  *)
(*                                                                         *)
(* Keys are modelled as naturals with the integer order standing for the   *)
(* std::string order of the ids.  Positions are 0-based as in the source;  *)
(* a TLA+ sequence is indexed with position + 1.                           *)
(***************************************************************************)
EXTENDS Integers, Sequences, FiniteSets, TLC

\* ------------------------------------------------------------------------
\* Bounds of the model
\* ------------------------------------------------------------------------
\* keys handed to the tree driver are 1..MaxKey
MaxKey == 22
\* number of insert calls of the tree driver that repeat an earlier key
MaxRepeats == 1
\* the tree driver produces its fresh keys as multiples of a stride 1..MaxStride
MaxStride == 4
\* rounds of creating calls made by the run that left the data directory
MaxPre == 5
\* calls made on the database object in the run that is explored
MaxCalls == 1
\* ids range over 1..MaxId
MaxId == 5
\* e-mail addresses range over 1..MaxEmail
MaxEmail == 4
\* user names and passwords range over 1..MaxName
MaxName == 1
\* time(nullptr) ranges over 1..MaxTime
MaxTime == 1
\* quest priorities passed to add_quest range over 1..MaxPriority
MaxPriority == 2
\* experience points written by update_user range over 0..MaxXP
MaxXP == 1
\* number of request threads of the server
MaxThreads == 2
\* longest list of strings handed to the codec
MaxVec == 2
\* the clock of the token driver advances MaxClock times
MaxClock == 3
\* jobs pushed to the queue of the sync engine
MaxJobs == 3

\* ------------------------------------------------------------------------
\* CompleteBTree<K, V>
\* ------------------------------------------------------------------------
ORDER == 3
MIN_KEYS == ORDER - 1
MAX_KEYS == 2 * ORDER - 1

\* value returned by the model of search when the source throws
NotFound == "Key not found in B-Tree"

BTreeNode(leaf) == [is_leaf |-> leaf, keys |-> <<>>, children |-> <<>>]

\* std::vector::insert(begin() + pos, e)
VecInsert(vec, pos, e) == SubSeq(vec, 1, pos) \o <<e>> \o SubSeq(vec, pos + 1, Len(vec))

SetMin(S) == CHOOSE x \in S : \A y \in S : x <= y
SetMax(S) == CHOOSE x \in S : \A y \in S : x >= y

find_key_position(node, key) ==
    LET hits == {i \in 0..(Len(node.keys) - 1) : key <= node.keys[i + 1][1]}
    IN  IF hits = {} THEN Len(node.keys) ELSE SetMin(hits)

insert_key(node, key, value) ==
    LET pos == find_key_position(node, key)
    IN  IF pos < Len(node.keys) /\ node.keys[pos + 1][1] = key
        THEN [node EXCEPT !.keys[pos + 1] = <<key, value>>]
        ELSE [node EXCEPT !.keys = VecInsert(node.keys, pos, <<key, value>>)]

\* split_child whose new child is always made a leaf
split_child_new_leaf(parent, child_index) ==
    LET child == parent.children[child_index + 1]
        mid_index == MIN_KEYS
        mid_key == child.keys[mid_index + 1]
        new_child ==
            [is_leaf |-> TRUE,
             keys |-> SubSeq(child.keys, mid_index + 2, Len(child.keys)),
             children |-> <<>>]
        old_child ==
            [child EXCEPT !.keys = SubSeq(child.keys, 1, mid_index),
                          !.children = IF ~child.is_leaf
                                       THEN SubSeq(child.children, 1, mid_index + 1)
                                       ELSE child.children]
        with_child == [parent EXCEPT !.children[child_index + 1] = old_child]
        with_key == insert_key(with_child, mid_key[1], mid_key[2])
    IN  [with_key EXCEPT !.children = VecInsert(with_key.children, child_index + 1, new_child)]

\* split_child with the new child's keys copied from mid_index on, so that
\* the promoted key also stays in the new child
split_child_keeps_mid(parent, child_index) ==
    LET child == parent.children[child_index + 1]
        mid_index == MIN_KEYS
        mid_key == child.keys[mid_index + 1]
        new_child ==
            [is_leaf |-> child.is_leaf,
             keys |-> SubSeq(child.keys, mid_index + 1, Len(child.keys)),
             children |-> IF ~child.is_leaf
                          THEN SubSeq(child.children, mid_index + 2, Len(child.children))
                          ELSE <<>>]
        old_child ==
            [child EXCEPT !.keys = SubSeq(child.keys, 1, mid_index),
                          !.children = IF ~child.is_leaf
                                       THEN SubSeq(child.children, 1, mid_index + 1)
                                       ELSE child.children]
        with_child == [parent EXCEPT !.children[child_index + 1] = old_child]
        with_key == insert_key(with_child, mid_key[1], mid_key[2])
    IN  [with_key EXCEPT !.children = VecInsert(with_key.children, child_index + 1, new_child)]

split_child(parent, child_index) ==
    LET child == parent.children[child_index + 1]
        mid_index == MIN_KEYS
        mid_key == child.keys[mid_index + 1]
        new_child ==
            [is_leaf |-> child.is_leaf,
             keys |-> SubSeq(child.keys, mid_index + 2, Len(child.keys)),
             children |-> IF ~child.is_leaf
                          THEN SubSeq(child.children, mid_index + 2, Len(child.children))
                          ELSE <<>>]
        old_child ==
            [child EXCEPT !.keys = SubSeq(child.keys, 1, mid_index),
                          !.children = IF ~child.is_leaf
                                       THEN SubSeq(child.children, 1, mid_index + 1)
                                       ELSE child.children]
        with_child == [parent EXCEPT !.children[child_index + 1] = old_child]
        with_key == insert_key(with_child, mid_key[1], mid_key[2])
    IN  [with_key EXCEPT !.children = VecInsert(with_key.children, child_index + 1, new_child)]

\* the index the while loop of insert_non_full stops at
descend_index(node, key) ==
    LET stops == {i \in 0..(Len(node.keys) - 1) : ~(key < node.keys[i + 1][1])}
    IN  IF stops = {} THEN 0 ELSE SetMax(stops) + 1

RECURSIVE insert_non_full(_, _, _)
insert_non_full(node, key, value) ==
    IF node.is_leaf
    THEN insert_key(node, key, value)
    ELSE LET i0 == descend_index(node, key)
             full == i0 < Len(node.children)
                     /\ Len(node.children[i0 + 1].keys) = MAX_KEYS
             node1 == IF full THEN split_child(node, i0) ELSE node
             i == IF full /\ key > node1.keys[i0 + 1][1] THEN i0 + 1 ELSE i0
         IN  IF i < Len(node1.children)
             THEN [node1 EXCEPT !.children[i + 1] =
                                    insert_non_full(node1.children[i + 1], key, value)]
             ELSE node1

\* search_node that looks at the keys of the node it is given and no further
search_node_here(node, key) ==
    IF \E i \in 1..Len(node.keys) : node.keys[i][1] = key
    THEN [found |-> TRUE,
          value |-> node.keys[CHOOSE i \in 1..Len(node.keys) : node.keys[i][1] = key][2]]
    ELSE [found |-> FALSE, value |-> NotFound]

RECURSIVE search_node(_, _)
search_node(node, key) ==
    LET n == Len(node.keys)
        le == {j \in 0..(n - 1) : ~(key > node.keys[j + 1][1])}
        i == IF le = {} THEN n ELSE SetMin(le)
    IN  IF i < n /\ key = node.keys[i + 1][1]
        THEN [found |-> TRUE, value |-> node.keys[i + 1][2]]
        ELSE IF node.is_leaf
             THEN [found |-> FALSE, value |-> NotFound]
             ELSE IF i < Len(node.children)
                  THEN search_node(node.children[i + 1], key)
                  ELSE [found |-> FALSE, value |-> NotFound]

\* CompleteBTree(): the root is an empty leaf
EmptyTree == BTreeNode(TRUE)

\* insert without the split of a full root
insert_unsplit(root, key, value) == insert_non_full(root, key, value)

insert(root, key, value) ==
    IF Len(root.keys) = MAX_KEYS
    THEN LET new_root == [is_leaf |-> FALSE, keys |-> <<>>, children |-> <<root>>]
         IN  insert_non_full(split_child(new_root, 0), key, value)
    ELSE insert_non_full(root, key, value)

\* search: the stored value, or NotFound where the source throws
search(root, key) == search_node(root, key).value

exists(root, key) == search_node(root, key).found

\* search throws std::runtime_error("Key not found in B-Tree")
search_throws(root, key) == ~search_node(root, key).found

RECURSIVE traverse(_)
RECURSIVE traverse_from(_, _)
\* the loop of the traverse lambda of get_all_keys from position i on
traverse_from(node, i) ==
    IF i < Len(node.keys)
    THEN (IF ~node.is_leaf /\ i < Len(node.children)
          THEN traverse(node.children[i + 1]) ELSE <<>>)
         \o <<node.keys[i + 1][1]>> \o traverse_from(node, i + 1)
    ELSE IF ~node.is_leaf /\ Len(node.keys) < Len(node.children)
         THEN traverse(node.children[Len(node.keys) + 1])
         ELSE <<>>
traverse(node) == traverse_from(node, 0)

get_all_keys(root) == traverse(root)

RECURSIVE height(_)
\* the lambda of get_height: one more than the number of leftmost children
\* followed until a leaf, or a node without children, is met
height(node) ==
    IF ~node.is_leaf /\ node.children # <<>>
    THEN 1 + height(node.children[1])
    ELSE 1

get_height(root) == height(root)

get_size(root) == Len(get_all_keys(root))

RECURSIVE traverse_range(_, _, _)
RECURSIVE traverse_range_children(_, _, _, _)
traverse_range_children(node, c, start, end) ==
    IF c < Len(node.children)
    THEN traverse_range(node.children[c + 1], start, end)
         \o traverse_range_children(node, c + 1, start, end)
    ELSE <<>>
traverse_range(node, start, end) ==
    LET own == SelectSeq(node.keys, LAMBDA kv : kv[1] >= start /\ kv[1] <= end)
    IN  [j \in 1..Len(own) |-> own[j][2]]
        \o (IF ~node.is_leaf THEN traverse_range_children(node, 0, start, end) ELSE <<>>)

range_query(root, start, end) == traverse_range(root, start, end)

clear == EmptyTree

\* ------------------------------------------------------------------------
\* Strings and files
\* ------------------------------------------------------------------------
\* A std::string is modelled by a natural n standing for a fixed string of
\* n bytes; 0 is the empty string and the order of the naturals is the
\* order of the strings.  A file is a sequence of tokens: a size_t header,
\* the raw bytes of one string, or one raw scalar (int, enum, time_t, bool,
\* float).
StrLen(str) == str

SizeTok(n) == [size |-> n]
BytesTok(str) == [bytes |-> str]
RawTok(v) == [raw |-> v]

\* str.resize(len) followed by a read that stores nothing: len NUL bytes
NulString(len) == 0 - len

\* What a read meets once the stream has failed at the end of a truncated
\* file; a truncated stream ends with a run of these tokens.  is.read()
\* stores nothing, so a size_t local that was never initialised keeps an
\* indeterminate value (junk), a string resized to len keeps its NUL bytes
\* and a member keeps what the default constructor gave it (now is the
\* time(nullptr) those constructors see).
EofTok(junk, len, now) ==
    [eof |-> TRUE, size |-> junk, bytes |-> NulString(len), now |-> now]

AtEof(is, pos) == "eof" \in DOMAIN is[pos]

LoadTime(is) == IF AtEof(is, Len(is)) THEN is[Len(is)].now ELSE 0

\* sanity limits of the readers
MAX_STRING_LEN == 1000000
MAX_VECTOR_COUNT == 10000
MAX_TREE_COUNT == 1000000
MAX_LIST_COUNT == 100000

write_string(str) ==
    <<SizeTok(StrLen(str))>> \o (IF StrLen(str) > 0 THEN <<BytesTok(str)>> ELSE <<>>)

\* read_string whose sanity check rejects one length too many
read_string_tight(is, pos) ==
    LET len == is[pos].size
    IN  IF len > 0 /\ len < MAX_STRING_LEN - 1
        THEN [val |-> is[pos + 1].bytes, pos |-> pos + 2]
        ELSE [val |-> 0, pos |-> pos + 1]

\* readers take the token sequence and the position of the next token and
\* return the value read and the position after it
read_string(is, pos) ==
    LET len == is[pos].size
    IN  IF len > 0 /\ len < MAX_STRING_LEN
        THEN [val |-> is[pos + 1].bytes, pos |-> pos + 2]
        ELSE [val |-> 0, pos |-> pos + 1]

\* is.read() into a member that holds kept
read_raw(is, pos, kept) ==
    [val |-> IF AtEof(is, pos) THEN kept ELSE is[pos].raw, pos |-> pos + 1]

RECURSIVE write_strings_from(_, _)
write_strings_from(vec, i) ==
    IF i > Len(vec) THEN <<>> ELSE write_string(vec[i]) \o write_strings_from(vec, i + 1)

write_vector_string(vec) == <<SizeTok(Len(vec))>> \o write_strings_from(vec, 1)

RECURSIVE read_strings(_, _, _)
read_strings(is, pos, count) ==
    IF count = 0
    THEN [val |-> <<>>, pos |-> pos]
    ELSE LET first == read_string(is, pos)
             rest == read_strings(is, first.pos, count - 1)
         IN  [val |-> <<first.val>> \o rest.val, pos |-> rest.pos]

read_vector_string(is, pos) ==
    LET count == is[pos].size
    IN  IF count < MAX_VECTOR_COUNT
        THEN read_strings(is, pos + 1, count)
        ELSE [val |-> <<>>, pos |-> pos + 1]

\* ------------------------------------------------------------------------
\* Entity records
\* ------------------------------------------------------------------------
STRENGTH == 0
BEGINNER == 0

\* Exercise(): the fields the default constructor sets, created_at = time(nullptr)
NewExercise(now) ==
    [id |-> 0, name |-> 0, type |-> STRENGTH, difficulty |-> BEGINNER,
     description |-> 0, target_muscles |-> <<>>, calories_per_minute |-> 0,
     prerequisites |-> <<>>, next_exercises |-> <<>>, created_at |-> now]

Exercise_serialize(e) ==
    write_string(e.id) \o write_string(e.name)
    \o <<RawTok(e.type), RawTok(e.difficulty)>>
    \o write_string(e.description) \o write_vector_string(e.target_muscles)
    \o <<RawTok(e.calories_per_minute)>>
    \o write_vector_string(e.prerequisites) \o write_vector_string(e.next_exercises)
    \o <<RawTok(e.created_at)>>

Exercise_deserialize(is, pos) ==
    LET id == read_string(is, pos)
        name == read_string(is, id.pos)
        type == read_raw(is, name.pos, NewExercise(LoadTime(is)).type)
        difficulty == read_raw(is, type.pos, NewExercise(LoadTime(is)).difficulty)
        description == read_string(is, difficulty.pos)
        target_muscles == read_vector_string(is, description.pos)
        calories == read_raw(is, target_muscles.pos, NewExercise(LoadTime(is)).calories_per_minute)
        prerequisites == read_vector_string(is, calories.pos)
        next_exercises == read_vector_string(is, prerequisites.pos)
        created_at == read_raw(is, next_exercises.pos, NewExercise(LoadTime(is)).created_at)
    IN  [val |-> [id |-> id.val, name |-> name.val, type |-> type.val,
                  difficulty |-> difficulty.val, description |-> description.val,
                  target_muscles |-> target_muscles.val,
                  calories_per_minute |-> calories.val,
                  prerequisites |-> prerequisites.val,
                  next_exercises |-> next_exercises.val,
                  created_at |-> created_at.val],
         pos |-> created_at.pos]

\* User(): fitness_level 1, experience_points 0, both timestamps time(nullptr)
NewUser(now) ==
    [id |-> 0, username |-> 0, email |-> 0, password_hash |-> 0,
     fitness_level |-> 1, experience_points |-> 0,
     completed_exercises |-> <<>>, achievements |-> <<>>,
     created_at |-> now, last_login |-> now]

User_serialize(u) ==
    write_string(u.id) \o write_string(u.username) \o write_string(u.email)
    \o write_string(u.password_hash)
    \o <<RawTok(u.fitness_level), RawTok(u.experience_points)>>
    \o write_vector_string(u.completed_exercises) \o write_vector_string(u.achievements)
    \o <<RawTok(u.created_at), RawTok(u.last_login)>>

User_deserialize(is, pos) ==
    LET id == read_string(is, pos)
        username == read_string(is, id.pos)
        email == read_string(is, username.pos)
        password_hash == read_string(is, email.pos)
        fitness_level == read_raw(is, password_hash.pos, NewUser(LoadTime(is)).fitness_level)
        experience_points == read_raw(is, fitness_level.pos, NewUser(LoadTime(is)).experience_points)
        completed_exercises == read_vector_string(is, experience_points.pos)
        achievements == read_vector_string(is, completed_exercises.pos)
        created_at == read_raw(is, achievements.pos, NewUser(LoadTime(is)).created_at)
        last_login == read_raw(is, created_at.pos, NewUser(LoadTime(is)).last_login)
    IN  [val |-> [id |-> id.val, username |-> username.val, email |-> email.val,
                  password_hash |-> password_hash.val,
                  fitness_level |-> fitness_level.val,
                  experience_points |-> experience_points.val,
                  completed_exercises |-> completed_exercises.val,
                  achievements |-> achievements.val,
                  created_at |-> created_at.val, last_login |-> last_login.val],
         pos |-> last_login.pos]

\* Quest(): priority 1, difficulty 1, not completed, deadline 0
NewQuest ==
    [id |-> 0, title |-> 0, description |-> 0, priority |-> 1, difficulty |-> 1,
     required_exercises |-> <<>>, rewards |-> <<>>, deadline |-> 0, completed |-> 0]

Quest_serialize(q) ==
    write_string(q.id) \o write_string(q.title) \o write_string(q.description)
    \o <<RawTok(q.priority), RawTok(q.difficulty)>>
    \o write_vector_string(q.required_exercises) \o write_vector_string(q.rewards)
    \o <<RawTok(q.deadline), RawTok(q.completed)>>

Quest_deserialize(is, pos) ==
    LET id == read_string(is, pos)
        title == read_string(is, id.pos)
        description == read_string(is, title.pos)
        priority == read_raw(is, description.pos, NewQuest.priority)
        difficulty == read_raw(is, priority.pos, NewQuest.difficulty)
        required_exercises == read_vector_string(is, difficulty.pos)
        rewards == read_vector_string(is, required_exercises.pos)
        deadline == read_raw(is, rewards.pos, NewQuest.deadline)
        completed == read_raw(is, deadline.pos, NewQuest.completed)
    IN  [val |-> [id |-> id.val, title |-> title.val, description |-> description.val,
                  priority |-> priority.val, difficulty |-> difficulty.val,
                  required_exercises |-> required_exercises.val,
                  rewards |-> rewards.val, deadline |-> deadline.val,
                  completed |-> completed.val],
         pos |-> completed.pos]

\* WorkoutSession(): the id is generated from time(nullptr) and rand() % 1000
NewWorkoutSession(new_id, now) ==
    [id |-> new_id, user_id |-> 0, start_time |-> now, end_time |-> 0,
     exercises |-> <<>>, total_calories |-> 0, validated |-> 0, form_score |-> 0]

WorkoutSession_serialize(s) ==
    write_string(s.id) \o write_string(s.user_id)
    \o <<RawTok(s.start_time), RawTok(s.end_time)>>
    \o write_vector_string(s.exercises)
    \o <<RawTok(s.total_calories), RawTok(s.validated), RawTok(s.form_score)>>

WorkoutSession_deserialize(is, pos) ==
    LET id == read_string(is, pos)
        user_id == read_string(is, id.pos)
        start_time == read_raw(is, user_id.pos, NewWorkoutSession(0, LoadTime(is)).start_time)
        end_time == read_raw(is, start_time.pos, NewWorkoutSession(0, LoadTime(is)).end_time)
        exercises == read_vector_string(is, end_time.pos)
        total_calories == read_raw(is, exercises.pos, NewWorkoutSession(0, LoadTime(is)).total_calories)
        validated == read_raw(is, total_calories.pos, NewWorkoutSession(0, LoadTime(is)).validated)
        form_score == read_raw(is, validated.pos, NewWorkoutSession(0, LoadTime(is)).form_score)
    IN  [val |-> [id |-> id.val, user_id |-> user_id.val,
                  start_time |-> start_time.val, end_time |-> end_time.val,
                  exercises |-> exercises.val, total_calories |-> total_calories.val,
                  validated |-> validated.val, form_score |-> form_score.val],
         pos |-> form_score.pos]

HashTableEntry_serialize(e) == write_string(e.key) \o write_string(e.value)

HashTableEntry_deserialize(is, pos) ==
    LET key == read_string(is, pos)
        value == read_string(is, key.pos)
    IN  [val |-> [key |-> key.val, value |-> value.val], pos |-> value.pos]

\* a GraphEdge as graph_edges.resize(count) makes it
NewGraphEdge == [from |-> 0, to |-> 0, weight |-> 0]

GraphEdge_serialize(e) == write_string(e.from) \o write_string(e.to) \o <<RawTok(e.weight)>>

GraphEdge_deserialize(is, pos) ==
    LET from == read_string(is, pos)
        to == read_string(is, from.pos)
        weight == read_raw(is, to.pos, NewGraphEdge.weight)
    IN  [val |-> [from |-> from.val, to |-> to.val, weight |-> weight.val],
         pos |-> weight.pos]

\* a PriorityQueueEntry as pq_entries.resize(count) makes it
NewPriorityQueueEntry == [quest |-> NewQuest, priority |-> 0, timestamp |-> 0]

PriorityQueueEntry_serialize(e) ==
    Quest_serialize(e.quest) \o <<RawTok(e.priority), RawTok(e.timestamp)>>

PriorityQueueEntry_deserialize(is, pos) ==
    LET quest == Quest_deserialize(is, pos)
        priority == read_raw(is, quest.pos, NewPriorityQueueEntry.priority)
        timestamp == read_raw(is, priority.pos, NewPriorityQueueEntry.timestamp)
    IN  [val |-> [quest |-> quest.val, priority |-> priority.val,
                  timestamp |-> timestamp.val],
         pos |-> timestamp.pos]

\* ------------------------------------------------------------------------
\* PersistentFitnessDatabase: persistence
\* ------------------------------------------------------------------------
\* A database value d holds the four trees, the three lists and the data
\* directory: d.files maps each of the seven file names to its content.
FileNames == {"exercises.dat", "users.dat", "workouts.dat", "quests.dat",
              "email_index.dat", "graph.dat", "priority_queue.dat"}

NoFile == [exists |-> FALSE, data |-> <<>>]
EmptyDir == [f \in FileNames |-> NoFile]

\* the members of a freshly built object, before the constructor body runs
NewDatabase(files) ==
    [exercise_btree |-> EmptyTree, user_btree |-> EmptyTree,
     workout_btree |-> EmptyTree, quest_btree |-> EmptyTree,
     email_index |-> <<>>, graph_edges |-> <<>>, pq_entries |-> <<>>,
     files |-> files]

\* save_exercise_pair, save_user_pair, save_workout_pair, save_quest_pair
save_pair(kind, key, value) ==
    write_string(key)
    \o CASE kind = "exercise" -> Exercise_serialize(value)
         [] kind = "user" -> User_serialize(value)
         [] kind = "workout" -> WorkoutSession_serialize(value)
         [] kind = "quest" -> Quest_serialize(value)

\* load_exercise_pair, load_user_pair, load_workout_pair, load_quest_pair
load_pair(kind, is, pos) ==
    LET key == read_string(is, pos)
        value == CASE kind = "exercise" -> Exercise_deserialize(is, key.pos)
                   [] kind = "user" -> User_deserialize(is, key.pos)
                   [] kind = "workout" -> WorkoutSession_deserialize(is, key.pos)
                   [] kind = "quest" -> Quest_deserialize(is, key.pos)
    IN  [key |-> key.val, value |-> value.val, pos |-> value.pos]

RECURSIVE save_records(_, _, _, _)
\* the loop of save_to_file: a key whose search throws is skipped
save_records(root, kind, keys, i) ==
    IF i > Len(keys)
    THEN <<>>
    ELSE (IF exists(root, keys[i])
          THEN save_pair(kind, keys[i], search(root, keys[i]))
          ELSE <<>>)
         \o save_records(root, kind, keys, i + 1)

\* the content save_to_file leaves in the file
save_to_file(root, kind) ==
    LET keys == get_all_keys(root)
    IN  [exists |-> TRUE,
         data |-> <<SizeTok(Len(keys))>> \o save_records(root, kind, keys, 1)]

RECURSIVE load_records(_, _, _, _, _)
\* one turn of the loop of load_from_file: p is the pair load_pair returned
load_record(root, kind, is, p, count) ==
    load_records(insert(root, p.key, p.value), kind, is, p.pos, count - 1)

\* the loop of load_from_file
load_records(root, kind, is, pos, count) ==
    IF count = 0
    THEN root
    ELSE load_record(root, kind, is, load_pair(kind, is, pos), count)

load_from_file(root, file, kind) ==
    IF ~file.exists
    THEN root
    ELSE LET count == file.data[1].size
         IN  IF count > MAX_TREE_COUNT
             THEN root
             ELSE load_records(root, kind, file.data, 2, count)

RECURSIVE save_entries(_, _, _)
save_entries(list, kind, i) ==
    IF i > Len(list)
    THEN <<>>
    ELSE (CASE kind = "hash" -> HashTableEntry_serialize(list[i])
            [] kind = "graph" -> GraphEdge_serialize(list[i])
            [] kind = "pq" -> PriorityQueueEntry_serialize(list[i]))
         \o save_entries(list, kind, i + 1)

\* save_hash_table, save_graph, save_priority_queue
save_list(list, kind) ==
    [exists |-> TRUE, data |-> <<SizeTok(Len(list))>> \o save_entries(list, kind, 1)]

RECURSIVE load_entries(_, _, _, _)
load_entries(kind, is, pos, count) ==
    IF count = 0
    THEN <<>>
    ELSE LET e == CASE kind = "hash" -> HashTableEntry_deserialize(is, pos)
                    [] kind = "graph" -> GraphEdge_deserialize(is, pos)
                    [] kind = "pq" -> PriorityQueueEntry_deserialize(is, pos)
         IN  <<e.val>> \o load_entries(kind, is, e.pos, count - 1)

\* load_hash_table, load_graph, load_priority_queue
load_list(list, file, kind) ==
    IF ~file.exists
    THEN list
    ELSE LET count == file.data[1].size
         IN  IF count < MAX_LIST_COUNT
             THEN load_entries(kind, file.data, 2, count)
             ELSE list

\* number of files save_all_data rewrites, and the positions of quests.dat
\* and priority_queue.dat among its writes
NumFiles == 7
QuestsWrite == 4
SnapshotWrite == 7

\* save_all_data with the three lists written before the four trees
save_first_lists_first(d, n) ==
    [d EXCEPT !.files =
        [@ EXCEPT
           !["email_index.dat"] =
               IF n >= 1 THEN save_list(d.email_index, "hash") ELSE @,
           !["graph.dat"] =
               IF n >= 2 THEN save_list(d.graph_edges, "graph") ELSE @,
           !["priority_queue.dat"] =
               IF n >= 3 THEN save_list(d.pq_entries, "pq") ELSE @,
           !["exercises.dat"] =
               IF n >= 4 THEN save_to_file(d.exercise_btree, "exercise") ELSE @,
           !["users.dat"] =
               IF n >= 5 THEN save_to_file(d.user_btree, "user") ELSE @,
           !["workouts.dat"] =
               IF n >= 6 THEN save_to_file(d.workout_btree, "workout") ELSE @,
           !["quests.dat"] =
               IF n >= 7 THEN save_to_file(d.quest_btree, "quest") ELSE @]]

\* the file cannot be opened for writing: std::ofstream file(...) yields !file
CannotOpen(file) == "unwritable" \in DOMAIN file

\* the files of the four trees in the order save_all_data writes them
TreeFiles == <<"exercises.dat", "users.dat", "workouts.dat", "quests.dat">>

\* the k-th write of save_all_data is reached and its file opens.
\* CompleteBTree::save_to_file throws when its file cannot be opened and
\* the catch block of save_all_data ends the save; save_hash_table,
\* save_graph and save_priority_queue return without writing.
Opens(files, k, file) ==
    /\ \A j \in 1..Len(TreeFiles) : j <= k => ~CannotOpen(files[TreeFiles[j]])
    /\ ~CannotOpen(file)

\* save_all_data up to and including its n-th write: the statements of
\* save_all_data in their order, the k-th one done when k <= n; a file not
\* yet rewritten is as it was
save_first(d, n) ==
    [d EXCEPT !.files =
        [@ EXCEPT
           !["exercises.dat"] =
               IF n >= 1 /\ Opens(d.files, 1, @)
               THEN save_to_file(d.exercise_btree, "exercise") ELSE @,
           !["users.dat"] =
               IF n >= 2 /\ Opens(d.files, 2, @)
               THEN save_to_file(d.user_btree, "user") ELSE @,
           !["workouts.dat"] =
               IF n >= 3 /\ Opens(d.files, 3, @)
               THEN save_to_file(d.workout_btree, "workout") ELSE @,
           !["quests.dat"] =
               IF n >= 4 /\ Opens(d.files, 4, @)
               THEN save_to_file(d.quest_btree, "quest") ELSE @,
           !["email_index.dat"] =
               IF n >= 5 /\ Opens(d.files, 5, @)
               THEN save_list(d.email_index, "hash") ELSE @,
           !["graph.dat"] =
               IF n >= 6 /\ Opens(d.files, 6, @)
               THEN save_list(d.graph_edges, "graph") ELSE @,
           !["priority_queue.dat"] =
               IF n >= 7 /\ Opens(d.files, 7, @)
               THEN save_list(d.pq_entries, "pq") ELSE @]]

save_all_data(d) == save_first(d, NumFiles)

load_all_data(d) ==
    [d EXCEPT
        !.exercise_btree = load_from_file(@, d.files["exercises.dat"], "exercise"),
        !.user_btree = load_from_file(@, d.files["users.dat"], "user"),
        !.workout_btree = load_from_file(@, d.files["workouts.dat"], "workout"),
        !.quest_btree = load_from_file(@, d.files["quests.dat"], "quest"),
        !.email_index = load_list(@, d.files["email_index.dat"], "hash"),
        !.graph_edges = load_list(@, d.files["graph.dat"], "graph"),
        !.pq_entries = load_list(@, d.files["priority_queue.dat"], "pq")]

\* ------------------------------------------------------------------------
\* PersistentFitnessDatabase: operations
\* ------------------------------------------------------------------------
\* ids and texts of the seed routine
EX001 == 1
EX002 == 2
ADMIN001 == 1
ADMIN_EMAIL == 1
Q001 == 1

initialize_sample_data(d, now) ==
    LET pushup == [NewExercise(now) EXCEPT !.id = EX001, !.name = 7,
                                           !.calories_per_minute = 8,
                                           !.next_exercises = <<EX002>>]
        squat == [NewExercise(now) EXCEPT !.id = EX002, !.name = 5,
                                          !.calories_per_minute = 7,
                                          !.prerequisites = <<EX001>>]
        admin == [NewUser(now) EXCEPT !.id = ADMIN001, !.username = 5,
                                      !.email = ADMIN_EMAIL, !.password_hash = 15,
                                      !.fitness_level = 10]
        daily == [NewQuest EXCEPT !.id = Q001, !.title = 15, !.description = 24,
                                  !.priority = 1,
                                  !.required_exercises = <<EX001, EX002>>,
                                  !.rewards = <<6>>]
    IN  save_all_data(
            [d EXCEPT
                !.exercise_btree = insert(insert(@, pushup.id, pushup), squat.id, squat),
                !.user_btree = insert(@, admin.id, admin),
                !.email_index = Append(@, [key |-> admin.email, value |-> admin.id]),
                !.graph_edges = Append(@, [from |-> EX001, to |-> EX002, weight |-> 1]),
                !.quest_btree = insert(@, daily.id, daily),
                !.pq_entries = Append(@, [quest |-> daily, priority |-> daily.priority,
                                          timestamp |-> now])])

\* PersistentFitnessDatabase(directory): load, then seed if there is no user
\* a constructor that never seeds
seed_never(loaded, now) == loaded

\* the body of the constructor after load_all_data(): seed if there is no user
seed_if_empty(loaded, now) ==
    IF get_size(loaded.user_btree) = 0
    THEN initialize_sample_data(loaded, now)
    ELSE loaded

Construct(files, now) == seed_if_empty(load_all_data(NewDatabase(files)), now)

\* ~PersistentFitnessDatabase()
Destruct(d) == save_all_data(d)

\* std::to_string(std::hash<std::string>{}(password)): a non-empty string
HashString(password) == password + 1

EmailRegistered(d, email) ==
    \E i \in 1..Len(d.email_index) : d.email_index[i].key = email

\* create_user without the scan of the e-mail index
create_user_unchecked(d, username, email, password, new_id, now) ==
    LET user == [NewUser(now) EXCEPT !.id = new_id, !.username = username,
                                     !.email = email,
                                     !.password_hash = HashString(password)]
    IN  [d |-> save_all_data(
                   [d EXCEPT !.user_btree = insert(@, user.id, user),
                             !.email_index = Append(@, [key |-> email,
                                                        value |-> user.id])]),
         ok |-> TRUE, ret |-> user.id]

\* create_user without the push_back on the e-mail index
create_user_no_index(d, username, email, password, new_id, now) ==
    IF EmailRegistered(d, email)
    THEN [d |-> d, ok |-> FALSE, ret |-> 0]
    ELSE LET user == [NewUser(now) EXCEPT !.id = new_id, !.username = username,
                                          !.email = email,
                                          !.password_hash = HashString(password)]
         IN  [d |-> save_all_data([d EXCEPT !.user_btree = insert(@, user.id, user)]),
              ok |-> TRUE, ret |-> user.id]

\* every operation returns the database after the call, whether the call
\* returned normally (ok) and the value it returned
create_user(d, username, email, password, new_id, now) ==
    IF EmailRegistered(d, email)
    THEN [d |-> d, ok |-> FALSE, ret |-> 0]
    ELSE LET user == [NewUser(now) EXCEPT !.id = new_id, !.username = username,
                                          !.email = email,
                                          !.password_hash = HashString(password)]
         IN  [d |-> save_all_data(
                        [d EXCEPT !.user_btree = insert(@, user.id, user),
                                  !.email_index = Append(@, [key |-> email,
                                                             value |-> user.id])]),
              ok |-> TRUE, ret |-> user.id]

\* get_user: ok is FALSE where search throws
get_user(d, user_id) ==
    [ok |-> exists(d.user_btree, user_id), ret |-> search(d.user_btree, user_id)]

get_user_by_email(d, email) ==
    IF EmailRegistered(d, email)
    THEN LET i == SetMin({j \in 1..Len(d.email_index) : d.email_index[j].key = email})
         IN  get_user(d, d.email_index[i].value)
    ELSE [ok |-> FALSE, ret |-> NotFound]

\* update_user that lets the failure of its save reach the caller
update_user_rethrows(d, user) ==
    [d |-> save_all_data([d EXCEPT !.user_btree = insert(@, user.id, user)]),
     ok |-> \A f \in DOMAIN d.files : ~CannotOpen(d.files[f])]

update_user(d, user) ==
    [d |-> save_all_data([d EXCEPT !.user_btree = insert(@, user.id, user)]),
     ok |-> TRUE]

\* add_exercise without the loop over exercise.prerequisites
add_exercise_no_edges(d, exercise) ==
    [d |-> save_all_data(
               [d EXCEPT !.exercise_btree = insert(@, exercise.id, exercise)]),
     ok |-> TRUE]

add_exercise(d, exercise) ==
    [d |-> save_all_data(
               [d EXCEPT !.exercise_btree = insert(@, exercise.id, exercise),
                         !.graph_edges = @ \o [j \in 1..Len(exercise.prerequisites) |->
                                                 [from |-> exercise.prerequisites[j],
                                                  to |-> exercise.id, weight |-> 1]]]),
     ok |-> TRUE]

RECURSIVE collect_records(_, _, _)
\* the loop of get_all_exercises and get_all_quests: a key whose search
\* throws is skipped
collect_records(root, keys, i) ==
    IF i > Len(keys)
    THEN <<>>
    ELSE (IF exists(root, keys[i]) THEN <<search(root, keys[i])>> ELSE <<>>)
         \o collect_records(root, keys, i + 1)

get_all_exercises(d) ==
    collect_records(d.exercise_btree, get_all_keys(d.exercise_btree), 1)

get_exercise(d, exercise_id) ==
    [ok |-> exists(d.exercise_btree, exercise_id),
     ret |-> search(d.exercise_btree, exercise_id)]

start_workout(d, user_id, new_id, now) ==
    LET session == [NewWorkoutSession(new_id, now) EXCEPT !.user_id = user_id]
    IN  [d |-> save_all_data([d EXCEPT !.workout_btree = insert(@, session.id, session)]),
         ok |-> TRUE, ret |-> session.id]

\* complete_workout that completes a default session where search throws
complete_workout_unchecked(d, workout_id, now) ==
    LET session == [(IF exists(d.workout_btree, workout_id)
                     THEN search(d.workout_btree, workout_id)
                     ELSE NewWorkoutSession(workout_id, now)) EXCEPT !.end_time = now]
    IN  [d |-> save_all_data(
                   [d EXCEPT !.workout_btree = insert(@, workout_id, session)]),
         ok |-> TRUE]

complete_workout(d, workout_id, now) ==
    IF ~exists(d.workout_btree, workout_id)
    THEN [d |-> d, ok |-> FALSE]
    ELSE LET session == [search(d.workout_btree, workout_id) EXCEPT !.end_time = now]
         IN  [d |-> save_all_data(
                        [d EXCEPT !.workout_btree = insert(@, workout_id, session)]),
              ok |-> TRUE]

get_workout(d, workout_id) ==
    [ok |-> exists(d.workout_btree, workout_id),
     ret |-> search(d.workout_btree, workout_id)]

RECURSIVE sort_outcomes_of(_, _)
sort_outcomes_of(list, I) ==
    IF I = {}
    THEN {<<>>}
    ELSE LET top == {i \in I : \A j \in I : list[i].priority >= list[j].priority}
         IN  UNION {{<<list[i]>> \o rest : rest \in sort_outcomes_of(list, I \ {i})}
                    : i \in top}
\* std::sort with the comparator a.priority > b.priority: every arrangement
\* in non-increasing priority (the order of equal priorities is unspecified)
sort_outcomes(list) == sort_outcomes_of(list, 1..Len(list))

\* add_quest without the std::sort call
add_quest_no_sort(d, quest, now, sorted) ==
    [d |-> save_all_data(
               [d EXCEPT !.quest_btree = insert(@, quest.id, quest),
                         !.pq_entries = Append(@, [quest |-> quest,
                                                   priority |-> quest.priority,
                                                   timestamp |-> now])]),
     ok |-> TRUE]

\* add_quest; sorted is the arrangement std::sort produced
add_quest(d, quest, now, sorted) ==
    [d |-> save_all_data([d EXCEPT !.quest_btree = insert(@, quest.id, quest),
                                   !.pq_entries = sorted]),
     ok |-> TRUE]
\* the list handed to std::sort by add_quest
add_quest_unsorted(d, quest, now) ==
    Append(d.pq_entries, [quest |-> quest, priority |-> quest.priority, timestamp |-> now])

\* get_next_quest that takes the front of the list
\* add_quest cut short: the tree and the list are updated in memory, the
\* first n files are rewritten, then the process is killed.  The result is
\* the directory it leaves.
add_quest_killed(d, quest, now, sorted, n) ==
    save_first([d EXCEPT !.quest_btree = insert(@, quest.id, quest),
                         !.pq_entries = sorted], n).files

get_next_quest_front(d) ==
    IF Len(d.pq_entries) = 0
    THEN [d |-> d, ok |-> FALSE, ret |-> NotFound]
    ELSE [d |-> save_all_data([d EXCEPT !.pq_entries = Tail(@)]),
          ok |-> TRUE, ret |-> d.pq_entries[1].quest]

get_next_quest(d) ==
    IF Len(d.pq_entries) = 0
    THEN [d |-> d, ok |-> FALSE, ret |-> NotFound]
    ELSE [d |-> save_all_data([d EXCEPT !.pq_entries = SubSeq(@, 1, Len(@) - 1)]),
          ok |-> TRUE, ret |-> d.pq_entries[Len(d.pq_entries)].quest]

get_quest(d, quest_id) ==
    [ok |-> exists(d.quest_btree, quest_id), ret |-> search(d.quest_btree, quest_id)]

get_stats(d) ==
    [exercise_count |-> get_size(d.exercise_btree),
     user_count |-> get_size(d.user_btree),
     workout_count |-> get_size(d.workout_btree),
     quest_count |-> get_size(d.quest_btree),
     email_index_size |-> Len(d.email_index),
     graph_edges |-> Len(d.graph_edges),
     priority_queue_size |-> Len(d.pq_entries)]

\* clear_all_data without email_index.clear()
clear_all_data_keeps_index(d, now) ==
    [d |-> initialize_sample_data(
               [d EXCEPT !.graph_edges = <<>>, !.pq_entries = <<>>,
                         !.exercise_btree = clear, !.user_btree = clear,
                         !.workout_btree = clear, !.quest_btree = clear,
                         !.files = EmptyDir],
               now),
     ok |-> TRUE]

\* clear_all_data without workout_btree.clear()
clear_all_data_keeps_workouts(d, now) ==
    [d |-> initialize_sample_data(
               [d EXCEPT !.email_index = <<>>, !.graph_edges = <<>>,
                         !.pq_entries = <<>>,
                         !.exercise_btree = clear, !.user_btree = clear,
                         !.quest_btree = clear,
                         !.files = EmptyDir],
               now),
     ok |-> TRUE]

\* clear_all_data: the lists and trees are emptied, the seven files (all
\* the files of the directory) removed, and the seed routine runs on what is
\* left
clear_all_data(d, now) ==
    [d |-> initialize_sample_data(
               [d EXCEPT !.email_index = <<>>, !.graph_edges = <<>>,
                         !.pq_entries = <<>>,
                         !.exercise_btree = clear, !.user_btree = clear,
                         !.workout_btree = clear, !.quest_btree = clear,
                         !.files = EmptyDir],
               now),
     ok |-> TRUE]

\* ------------------------------------------------------------------------
\* State
\* ------------------------------------------------------------------------
VARIABLES
    bt,       \* a CompleteBTree<int, int> driven directly (its root)
    hist,     \* the insert calls made on bt so far, as <<key, value>>
    stride,   \* the order in which the driver produces fresh keys
    repeats,  \* number of insert calls on bt that repeated a key
    db,       \* the PersistentFitnessDatabase object and its data directory
    calls,    \* number of calls made on db since it was set up
    last,     \* the last call made on db: its name, arguments and result
    dbMutex,  \* Config::Database::dbMutex: the thread that holds it, or NoThread
    connected,\* Config::Database::connected
    th,       \* per request thread: its handler, its position and its locals
    db0,      \* the database as it was when the server started
    vec,      \* the std::vector<std::string> handed to the codec
    os,       \* the stream the codec wrote, as a token sequence
    codec,    \* the last call of the codec and what it returned
    token,    \* the token presented to JWT::verifyToken
    clock,    \* std::time(nullptr)
    jwt,      \* the last call of JWT and what it returned
    sync      \* the GameSyncEngine: its queue, its worker and the thread that owns it

vars == <<bt, hist, stride, repeats, db, calls, last, dbMutex, connected, th, db0,
          vec, os, codec, token, clock, jwt,
         sync>>

Threads == 1..MaxThreads
NoThread == 0

\* a thread of the listener's pool that handles no request
IdleThread ==
    [handler |-> "none", at |-> "idle", in |-> FALSE, resp |-> "none",
     user_id |-> 0, xp |-> 0, levelUp |-> FALSE, newLevel |-> 1,
     user |-> NewUser(0), workout_id |-> 0, quest_id |-> 0, quest |-> NewQuest]

\* no server runs on the database
NoServer ==
    /\ dbMutex = NoThread
    /\ connected = FALSE
    /\ th = [t \in Threads |-> IdleThread]
    /\ db0 = NewDatabase(EmptyDir)

ServerIdle == UNCHANGED <<dbMutex, connected, th, db0>>

\* no codec call has been made
NoCodec ==
    /\ vec = <<>>
    /\ os = <<>>
    /\ codec = [op |-> "none"]

CodecIdle == UNCHANGED <<vec, os, codec>>

\* no token has been issued
NoJWT ==
    /\ token = <<>>
    /\ clock = 0
    /\ jwt = [op |-> "none"]

JWTIdle == UNCHANGED <<token, clock, jwt>>

\* no GameSyncEngine exists
NoSync == sync = [worker |-> "none"]

SyncIdle == UNCHANGED sync

Range(f) == {f[x] : x \in DOMAIN f}

\* ------------------------------------------------------------------------
\* The tree driver: insert calls on one tree
\* ------------------------------------------------------------------------
Gcd(a, b) == SetMax({d \in 1..a : a % d = 0 /\ b % d = 0})
\* strides that enumerate all of 1..MaxKey, forwards (s) and mirrored (-s)
Strides == {s \in 1..MaxStride : Gcd(s, MaxKey + 1) = 1}
Orders == Strides \cup {0 - s : s \in Strides}

InsertedKeys == {hist[j][1] : j \in 1..Len(hist)}
NumFresh == Cardinality(InsertedKeys)

\* the n-th fresh key of the order chosen at the start
FreshKey(n) ==
    LET m == (n * (IF stride > 0 THEN stride ELSE 0 - stride)) % (MaxKey + 1)
    IN  IF stride > 0 THEN m ELSE MaxKey + 1 - m

InitTree ==
    /\ bt = EmptyTree
    /\ hist = <<>>
    /\ stride \in Orders
    /\ repeats = 0
    /\ db = NewDatabase(EmptyDir)
    /\ calls = 0
    /\ last = [op |-> "none", ok |-> TRUE]
    /\ NoServer /\ NoCodec /\ NoJWT /\ NoSync

\* insert(k, v) with a key not inserted before; v is the serial number of the call
InsertFresh ==
    /\ NumFresh < MaxKey
    /\ LET k == FreshKey(NumFresh + 1)
           v == Len(hist) + 1
       IN  /\ bt' = insert(bt, k, v)
           /\ hist' = Append(hist, <<k, v>>)
    /\ UNCHANGED <<stride, repeats, db, calls, last>>
    /\ ServerIdle /\ CodecIdle /\ JWTIdle /\ SyncIdle

\* insert(k, v) with a key inserted before
InsertRepeat ==
    /\ repeats < MaxRepeats
    /\ \E k \in InsertedKeys :
         LET v == Len(hist) + 1
         IN  /\ bt' = insert(bt, k, v)
             /\ hist' = Append(hist, <<k, v>>)
    /\ repeats' = repeats + 1
    /\ UNCHANGED <<stride, db, calls, last>>
    /\ ServerIdle /\ CodecIdle /\ JWTIdle /\ SyncIdle

NextTree == InsertFresh \/ InsertRepeat

SpecTree == InitTree /\ [][NextTree]_vars

\* clear(): the root becomes a new empty leaf; the driver starts over
Clear ==
    /\ bt' = EmptyTree
    /\ hist' = <<>>
    /\ UNCHANGED <<stride, repeats, db, calls, last>>
    /\ ServerIdle /\ CodecIdle /\ JWTIdle /\ SyncIdle

NextTreeClear == InsertFresh \/ InsertRepeat \/ Clear

SpecTreeClear == InitTree /\ [][NextTreeClear]_vars

\* ------------------------------------------------------------------------
\* The database driver: public calls on one database object
\* ------------------------------------------------------------------------
Usernames == 1..MaxName
Passwords == 1..MaxName
Emails == 1..MaxEmail
Times == 1..MaxTime
\* ids the id scheme can produce ("USER_..." is never the admin id)
UserIds == (ADMIN001 + 1)..MaxId
WorkoutIds == 1..MaxId
ExerciseIds == 1..MaxId
QuestIds == 1..MaxId
Priorities == 1..MaxPriority
WorkoutUsers == {ADMIN001, ADMIN001 + 1}
PrereqLists == {<<>>, <<EX001>>}

\* the only outcome of std::sort on a list without equal priorities
TheSorted(list) == CHOOSE s \in sort_outcomes(list) : TRUE

\* add_quest on a list whose priorities differ
add_quest_sorted(d, quest, now) ==
    add_quest(d, quest, now, TheSorted(add_quest_unsorted(d, quest, now)))

\* round p of the earlier run, made on the database d0
EarlierRound(d0, p) ==
    add_quest_sorted(
        add_exercise(
            start_workout(create_user(d0, 1, 2 * p, 1, 2 * p, 1).d,
                          ADMIN001, 2 * p - 1, 1).d,
            [NewExercise(1) EXCEPT !.id = 2 * p + 1, !.name = 3]).d,
        [NewQuest EXCEPT !.id = 2 * p, !.title = 3, !.priority = p + 1], 1).d

RECURSIVE EarlierRun(_)
\* the database an earlier run leaves behind: first construction on an empty
\* directory, then p rounds of create_user, start_workout, add_exercise and
\* add_quest.  The ids of round j (2j or 2j +- 1) leave unused ids between
\* the stored ones.
EarlierRun(p) ==
    IF p = 0
    THEN Construct(EmptyDir, 1)
    ELSE EarlierRound(EarlierRun(p - 1), p)

NoCall == [op |-> "none", ok |-> TRUE]

FirstRun == [op |-> "first_run", ok |-> TRUE]

\* the directory the object is constructed on: without files when there was
\* no earlier run, else as the earlier run with p rounds left it when its
\* object was destroyed
NoEarlierRun == 0 - 1
StartFiles(p) ==
    IF p = NoEarlierRun THEN EmptyDir ELSE Destruct(EarlierRun(p)).files

\* the object is constructed either on a directory without files (first run)
\* or on the directory an earlier run left when it was destroyed
InitDB ==
    /\ \E p \in NoEarlierRun..MaxPre :
         /\ db = Construct(StartFiles(p), 1)
         /\ last = IF p = NoEarlierRun THEN FirstRun ELSE NoCall
    /\ calls = 0

TreeIdle == UNCHANGED <<bt, hist, stride, repeats>>

\* an object exists and can take a call
Running == calls < MaxCalls /\ last.op # "add_quest_killed"

CreateUser ==
    /\ Running
    /\ \E username \in Usernames, email \in Emails, password \in Passwords,
          new_id \in UserIds, now \in Times :
         \E r \in {create_user(db, username, email, password, new_id, now)} :
             /\ db' = r.d
             /\ last' = [op |-> "create_user", ok |-> r.ok, username |-> username,
                         email |-> email, ret |-> r.ret,
                         new_key |-> ~exists(db.user_btree, new_id)]
    /\ calls' = calls + 1
    /\ TreeIdle /\ ServerIdle /\ CodecIdle /\ JWTIdle /\ SyncIdle

\* update_user with a record read by get_user and given new experience points
UpdateUser ==
    /\ Running
    /\ \E user_id \in {k \in 1..MaxId : exists(db.user_btree, k)}, xp \in 0..MaxXP :
         \E user \in {[get_user(db, user_id).ret EXCEPT !.experience_points = xp]} :
           \E r \in {update_user(db, user)} :
             /\ db' = r.d
             /\ last' = [op |-> "update_user", ok |-> r.ok, user |-> user]
    /\ calls' = calls + 1
    /\ TreeIdle /\ ServerIdle /\ CodecIdle /\ JWTIdle /\ SyncIdle

AddExercise ==
    /\ Running
    /\ \E id \in ExerciseIds, prerequisites \in PrereqLists, now \in Times :
         \E exercise \in {[NewExercise(now) EXCEPT !.id = id, !.name = 3,
                                                    !.prerequisites = prerequisites]} :
           \E r \in {add_exercise(db, exercise)} :
             /\ db' = r.d
             /\ last' = [op |-> "add_exercise", ok |-> r.ok, exercise |-> exercise]
    /\ calls' = calls + 1
    /\ TreeIdle /\ ServerIdle /\ CodecIdle /\ JWTIdle /\ SyncIdle

StartWorkout ==
    /\ Running
    /\ \E user_id \in WorkoutUsers, new_id \in WorkoutIds, now \in Times :
         \E r \in {start_workout(db, user_id, new_id, now)} :
             /\ db' = r.d
             /\ last' = [op |-> "start_workout", ok |-> r.ok, user_id |-> user_id,
                         ret |-> r.ret]
    /\ calls' = calls + 1
    /\ TreeIdle /\ ServerIdle /\ CodecIdle /\ JWTIdle /\ SyncIdle

CompleteWorkout ==
    /\ Running
    /\ \E workout_id \in WorkoutIds, now \in Times :
         \E r \in {complete_workout(db, workout_id, now)} :
             /\ db' = r.d
             /\ last' = [op |-> "complete_workout", ok |-> r.ok,
                         workout_id |-> workout_id]
    /\ calls' = calls + 1
    /\ TreeIdle /\ ServerIdle /\ CodecIdle /\ JWTIdle /\ SyncIdle

AddQuest ==
    /\ Running
    /\ \E id \in QuestIds, priority \in Priorities, now \in Times :
         LET quest == [NewQuest EXCEPT !.id = id, !.title = 3, !.priority = priority]
         IN  \E sorted \in sort_outcomes(add_quest_unsorted(db, quest, now)) :
                \E r \in {add_quest(db, quest, now, sorted)} :
                    /\ db' = r.d
                    /\ last' = [op |-> "add_quest", ok |-> r.ok, quest |-> quest]
    /\ calls' = calls + 1
    /\ TreeIdle /\ ServerIdle /\ CodecIdle /\ JWTIdle /\ SyncIdle

GetNextQuest ==
    /\ Running
    /\ \E r \in {get_next_quest(db)} :
           /\ db' = r.d
           /\ last' = [op |-> "get_next_quest", ok |-> r.ok, ret |-> r.ret]
    /\ calls' = calls + 1
    /\ TreeIdle /\ ServerIdle /\ CodecIdle /\ JWTIdle /\ SyncIdle

ClearAllData ==
    /\ Running
    /\ \E now \in Times :
         \E r \in {clear_all_data(db, now)} :
             /\ db' = r.d
             /\ last' = [op |-> "clear_all_data", ok |-> r.ok,
                         before |-> get_stats(db)]
    /\ calls' = calls + 1
    /\ TreeIdle /\ ServerIdle /\ CodecIdle /\ JWTIdle /\ SyncIdle

\* the process is killed during the save_all_data call of add_quest, after n
\* of the seven writes.  No object is left: db stays as it was when the call
\* was made and takes no further call, and the record of the call holds the
\* directory the process left.
KillDuringAddQuest ==
    /\ Running
    /\ \E id \in QuestIds, priority \in Priorities, now \in Times,
          n \in 0..(NumFiles - 1) :
         LET quest == [NewQuest EXCEPT !.id = id, !.title = 3, !.priority = priority]
         IN  \E sorted \in sort_outcomes(add_quest_unsorted(db, quest, now)) :
                last' = [op |-> "add_quest_killed", ok |-> FALSE, quest |-> quest,
                         n |-> n, new_key |-> ~exists(db.quest_btree, id),
                         before |-> db.pq_entries,
                         files |-> add_quest_killed(db, quest, now, sorted, n)]
    /\ UNCHANGED <<db, calls>>
    /\ TreeIdle /\ ServerIdle /\ CodecIdle /\ JWTIdle /\ SyncIdle

\* the directory a new object finds: as the destructor of the running object
\* leaves it, or as the killed process left it
LeftBehind(d, call) ==
    IF call.op = "add_quest_killed" THEN call.files ELSE Destruct(d).files

\* a new object is constructed on the directory, after the running one was
\* destroyed or after the process was killed
Restart ==
    /\ calls < MaxCalls
    /\ \E now \in Times : db' = Construct(LeftBehind(db, last), now)
    /\ last' = IF last.op = "add_quest_killed"
                 THEN [last EXCEPT !.op = "restart_after_kill"]
                 ELSE [op |-> "restart", ok |-> TRUE]
    /\ calls' = calls + 1
    /\ TreeIdle /\ ServerIdle /\ CodecIdle /\ JWTIdle /\ SyncIdle

NextDB ==
    \/ CreateUser \/ UpdateUser \/ AddExercise \/ StartWorkout \/ CompleteWorkout
    \/ AddQuest \/ GetNextQuest \/ ClearAllData \/ Restart \/ KillDuringAddQuest

Init ==
    /\ bt = EmptyTree
    /\ hist = <<>>
    /\ stride = 1
    /\ repeats = 0
    /\ InitDB
    /\ NoServer /\ NoCodec /\ NoJWT /\ NoSync

Next == NextDB

Spec == Init /\ [][Next]_vars

\* ------------------------------------------------------------------------
\* The read operations of the database
\* ------------------------------------------------------------------------
get_all_quests(d) == collect_records(d.quest_btree, get_all_keys(d.quest_btree), 1)

get_exercise_graph(d) == d.graph_edges

ReadOps == {"get_user", "get_user_by_email", "get_exercise", "get_all_exercises",
            "get_workout", "get_quest", "get_all_quests", "get_exercise_graph",
            "get_stats"}

\* what the read operation op returns when called with arg
read_return(d, op, arg) ==
    CASE op = "get_user" -> get_user(d, arg)
      [] op = "get_user_by_email" -> get_user_by_email(d, arg)
      [] op = "get_exercise" -> get_exercise(d, arg)
      [] op = "get_workout" -> get_workout(d, arg)
      [] op = "get_quest" -> get_quest(d, arg)
      [] op = "get_all_exercises" -> [ok |-> TRUE, ret |-> get_all_exercises(d)]
      [] op = "get_all_quests" -> [ok |-> TRUE, ret |-> get_all_quests(d)]
      [] op = "get_exercise_graph" -> [ok |-> TRUE, ret |-> get_exercise_graph(d)]
      [] op = "get_stats" -> [ok |-> TRUE, ret |-> get_stats(d)]

\* a read operation that also takes the next quest off the snapshot, as
\* get_next_quest does
read_and_pop(d, op, arg) ==
    [d |-> get_next_quest(d).d, ok |-> read_return(d, op, arg).ok,
     ret |-> read_return(d, op, arg).ret]

\* a read operation: it assigns to no member and calls no save, so the
\* object and its directory are left as they are
read(d, op, arg) ==
    [d |-> d, ok |-> read_return(d, op, arg).ok, ret |-> read_return(d, op, arg).ret]

\* ids and e-mails passed to the read operations, stored ones and others
ReadArgs == 0..(MaxId + 1)

Read ==
    /\ Running
    /\ \E op \in ReadOps, arg \in ReadArgs :
         \E r \in {read(db, op, arg)} :
             /\ db' = r.d
             /\ last' = [op |-> op, ok |-> r.ok, arg |-> arg]
    /\ calls' = calls + 1
    /\ TreeIdle /\ ServerIdle /\ CodecIdle /\ JWTIdle /\ SyncIdle

NextReads == NextDB \/ Read

SpecReads == Init /\ [][NextReads]_vars

\* ------------------------------------------------------------------------
\* The codec driver: strings and string lists written and read back
\* ------------------------------------------------------------------------
\* strings by their length: empty, short, and around the limit of read_string
StringSamples == {0, 1, 2, MAX_STRING_LEN - 1, MAX_STRING_LEN, MAX_STRING_LEN + 1}

\* lists of at most MaxVec strings.  Only the last string may reach the
\* limit: read_string leaves the bytes of such a string unread, and a read
\* after it would take them for a header.
VectorSamples ==
    {v \in UNION {[1..n -> StringSamples] : n \in 0..MaxVec} :
        \A i \in 1..(Len(v) - 1) : v[i] < MAX_STRING_LEN}

InitCodec ==
    /\ bt = EmptyTree
    /\ hist = <<>>
    /\ stride = 1
    /\ repeats = 0
    /\ db = NewDatabase(EmptyDir)
    /\ calls = 0
    /\ last = NoCall
    /\ NoServer /\ NoJWT /\ NoSync
    /\ vec \in VectorSamples
    /\ os = <<>>
    /\ codec = [op |-> "none"]

\* write_string(os, vec[1]) on a new stream
WriteString ==
    /\ codec.op = "none" /\ Len(vec) >= 1
    /\ os' = write_string(vec[1])
    /\ codec' = [op |-> "write_string", intact |-> TRUE]
    /\ UNCHANGED vec

\* write_vector_string(os, vec) on a new stream
WriteVectorString ==
    /\ codec.op = "none"
    /\ os' = write_vector_string(vec)
    /\ codec' = [op |-> "write_vector_string", intact |-> TRUE]
    /\ UNCHANGED vec

\* the 8-byte header at the start of the stream is overwritten with a value
\* at or above the limit of the reader
OverwriteHeader ==
    /\ codec.op \in {"write_string", "write_vector_string"} /\ codec.intact
    /\ \E excess \in 0..1 :
         os' = [os EXCEPT ![1] =
                   SizeTok((IF codec.op = "write_string"
                            THEN MAX_STRING_LEN ELSE MAX_VECTOR_COUNT) + excess)]
    /\ codec' = [codec EXCEPT !.intact = FALSE]
    /\ UNCHANGED vec

\* read_string(is, str) on the stream
ReadString ==
    /\ codec.op = "write_string"
    /\ codec' = [op |-> "read_string", intact |-> codec.intact,
                 val |-> read_string(os, 1).val]
    /\ UNCHANGED <<vec, os>>

\* read_vector_string(is, vec) on the stream
ReadVectorString ==
    /\ codec.op = "write_vector_string"
    /\ codec' = [op |-> "read_vector_string", intact |-> codec.intact,
                 val |-> read_vector_string(os, 1).val]
    /\ UNCHANGED <<vec, os>>

NextCodec ==
    /\ \/ WriteString \/ WriteVectorString \/ OverwriteHeader
       \/ ReadString \/ ReadVectorString
    /\ UNCHANGED <<db, calls, last>>
    /\ TreeIdle /\ ServerIdle /\ JWTIdle /\ SyncIdle

SpecCodec == InitCodec /\ [][NextCodec]_vars

\* ------------------------------------------------------------------------
\* The database driver on a directory with a file that cannot be written
\* ------------------------------------------------------------------------
\* the file f of the directory can no longer be opened for writing
make_unwritable(d, f) ==
    [d EXCEPT !.files[f] = [exists |-> @.exists, data |-> @.data, unwritable |-> TRUE]]

\* the earlier runs the driver starts from
UnwritableStarts == {NoEarlierRun, 1}

\* the object is constructed as in InitDB; then one of the seven files
\* becomes unwritable
InitUnwritable ==
    /\ bt = EmptyTree
    /\ hist = <<>>
    /\ stride = 1
    /\ repeats = 0
    /\ \E p \in UnwritableStarts, f \in FileNames :
         db = make_unwritable(Construct(StartFiles(p), 1), f)
    /\ last = NoCall
    /\ calls = 0
    /\ NoServer /\ NoCodec /\ NoJWT /\ NoSync

SpecUnwritable == InitUnwritable /\ [][NextDB]_vars

\* ------------------------------------------------------------------------
\* The server: request handlers calling the database through Config::Database
\* ------------------------------------------------------------------------
\* Constants::getXPForLevel: 100 * 1.5^(level - 1), truncated
getXPForLevel(level) == (100 * 3 ^ (level - 1)) \div 2 ^ (level - 1)

RECURSIVE level_from(_, _, _)
\* the loop of calculateLevelFromXP
level_from(xp, level, requiredXP) ==
    IF xp >= requiredXP
    THEN level_from(xp, level + 1, requiredXP + getXPForLevel(level + 1))
    ELSE level

calculateLevelFromXP(xp) == level_from(xp, 1, getXPForLevel(1))

\* experience a workout can earn: without and with a change of level
RewardSamples == {1, 100}
\* ids start_workout can generate for the requests
ServerWorkoutIds == {2, 4}
\* quests a completeQuest request can name: the seeded one and an absent one
ServerQuestIds == {Q001, MaxId}
\* experience per difficulty point of a completed quest
QUEST_XP == 50

\* std::lock_guard<std::mutex> lock(dbMutex) can be passed
lock_guard_unlocked(mutex) == TRUE

lock_guard(mutex) == mutex = NoThread

\* the positions at which a handler is about to call, or is inside, a
\* method of Config::Database
WrapperCalls == {"rewards", "getUser", "updateUser", "startWorkout",
                 "completeWorkout", "getQuest", "addQuest", "disconnect", "connect"}

\* WorkoutController::logWorkout receives a request
LogWorkout(t) ==
    /\ th[t].handler = "none"
    /\ \E user_id \in WorkoutUsers, xp \in RewardSamples :
         th' = [th EXCEPT ![t] = [@ EXCEPT !.handler = "logWorkout", !.at = "rewards",
                                          !.user_id = user_id, !.xp = xp]]
    /\ UNCHANGED <<db, dbMutex, connected, db0>>

\* QuestController::completeQuest receives a request
CompleteQuest(t) ==
    /\ th[t].handler = "none"
    /\ \E user_id \in WorkoutUsers, quest_id \in ServerQuestIds :
         th' = [th EXCEPT ![t] = [@ EXCEPT !.handler = "completeQuest",
                                          !.at = "getQuest", !.user_id = user_id,
                                          !.quest_id = quest_id]]
    /\ UNCHANGED <<db, dbMutex, connected, db0>>

\* the main thread disconnects and connects again
Reconnect(t) ==
    /\ \A u \in Threads : th[u].handler \notin {"reconnect"}
    /\ th[t].handler = "none"
    /\ th' = [th EXCEPT ![t] = [@ EXCEPT !.handler = "reconnect", !.at = "disconnect"]]
    /\ UNCHANGED <<db, dbMutex, connected, db0>>

\* the first statement of every method: the thread waits for dbMutex
Lock(t) ==
    /\ th[t].at \in WrapperCalls
    /\ ~th[t].in
    /\ lock_guard(dbMutex)
    /\ dbMutex' = t
    /\ th' = [th EXCEPT ![t].in = TRUE]
    /\ UNCHANGED <<db, connected, db0>>

\* the thread is inside the method at position at
Inside(t, at) == th[t].in /\ th[t].at = at

\* the lock_guard goes out of scope
Unlock(t) == IF dbMutex = t THEN NoThread ELSE dbMutex

\* the method returns to the handler, which goes on to position at
Returns(t, at) == [th[t] EXCEPT !.in = FALSE, !.at = at]

\* the method throws; the handler's catch block sends the error response
Throws(t) == [th[t] EXCEPT !.in = FALSE, !.at = "done", !.resp = "error"]

\* if (!isConnected()) throw std::runtime_error("Database not connected")
NotConnected(t) ==
    /\ th[t].in /\ th[t].at \notin {"disconnect", "connect"}
    /\ ~connected
    /\ th' = [th EXCEPT ![t] = Throws(t)]
    /\ dbMutex' = Unlock(t)
    /\ UNCHANGED <<db, connected, db0>>

\* getUser as called by RewardService::calculateWorkoutRewards
Database_getUser_rewards(t) ==
    /\ Inside(t, "rewards") /\ connected
    /\ \E r \in {get_user(db, th[t].user_id)} :
         th' = [th EXCEPT ![t] =
                  IF ~r.ok
                  THEN Throws(t)
                  ELSE [Returns(t, "getUser") EXCEPT
                          !.levelUp =
                              calculateLevelFromXP(r.ret.experience_points + th[t].xp)
                              > calculateLevelFromXP(r.ret.experience_points),
                          !.newLevel =
                              calculateLevelFromXP(r.ret.experience_points + th[t].xp)]]
    /\ dbMutex' = Unlock(t)
    /\ UNCHANGED <<db, connected, db0>>

\* FitnessDB::User user = database->getUser(userId)
Database_getUser(t) ==
    /\ Inside(t, "getUser") /\ connected
    /\ \E r \in {get_user(db, th[t].user_id)} :
         th' = [th EXCEPT ![t] =
                  IF ~r.ok THEN Throws(t)
                  ELSE [Returns(t, "updateUser") EXCEPT !.user = r.ret]]
    /\ dbMutex' = Unlock(t)
    /\ UNCHANGED <<db, connected, db0>>

\* user.experience_points += ...; database->updateUser(user)
handler_user(r) ==
    [r.user EXCEPT !.experience_points = @ + r.xp,
                   !.fitness_level = IF r.levelUp THEN r.newLevel ELSE @]

Database_updateUser(t) ==
    /\ Inside(t, "updateUser") /\ connected
    /\ \E r \in {update_user(db, handler_user(th[t]))} : db' = r.d
    /\ th' = [th EXCEPT ![t] =
                IF th[t].handler = "logWorkout"
                THEN Returns(t, "startWorkout")
                ELSE [Returns(t, "done") EXCEPT !.resp = "ok"]]
    /\ dbMutex' = Unlock(t)
    /\ UNCHANGED <<connected, db0>>

Database_startWorkout(t) ==
    /\ Inside(t, "startWorkout") /\ connected
    /\ \E new_id \in ServerWorkoutIds, now \in Times :
         \E r \in {start_workout(db, th[t].user_id, new_id, now)} :
            /\ db' = r.d
            /\ th' = [th EXCEPT ![t] =
                        [Returns(t, "completeWorkout") EXCEPT !.workout_id = r.ret]]
    /\ dbMutex' = Unlock(t)
    /\ UNCHANGED <<connected, db0>>

Database_completeWorkout(t) ==
    /\ Inside(t, "completeWorkout") /\ connected
    /\ \E now \in Times :
         \E r \in {complete_workout(db, th[t].workout_id, now)} :
            /\ db' = r.d
            /\ th' = [th EXCEPT ![t] =
                        IF r.ok THEN [Returns(t, "done") EXCEPT !.resp = "ok"]
                        ELSE Throws(t)]
    /\ dbMutex' = Unlock(t)
    /\ UNCHANGED <<connected, db0>>

\* FitnessDB::Quest quest = database->getQuest(questId); quest.completed = true
Database_getQuest(t) ==
    /\ Inside(t, "getQuest") /\ connected
    /\ \E r \in {get_quest(db, th[t].quest_id)} :
         th' = [th EXCEPT ![t] =
                  IF ~r.ok THEN Throws(t)
                  ELSE [Returns(t, "addQuest") EXCEPT
                          !.quest = [r.ret EXCEPT !.completed = 1]]]
    /\ dbMutex' = Unlock(t)
    /\ UNCHANGED <<db, connected, db0>>

\* database->addQuest(quest); xp = quest.difficulty * 50
Database_addQuest(t) ==
    /\ Inside(t, "addQuest") /\ connected
    /\ \E now \in Times :
         \E sorted \in sort_outcomes(add_quest_unsorted(db, th[t].quest, now)) :
            \E r \in {add_quest(db, th[t].quest, now, sorted)} : db' = r.d
    /\ th' = [th EXCEPT ![t] =
                [Returns(t, "getUser") EXCEPT !.xp = th[t].quest.difficulty * QUEST_XP]]
    /\ dbMutex' = Unlock(t)
    /\ UNCHANGED <<connected, db0>>

\* disconnect: db.reset() runs the destructor of the engine
Database_disconnect(t) ==
    /\ Inside(t, "disconnect")
    /\ db' = IF connected THEN Destruct(db) ELSE db
    /\ connected' = FALSE
    /\ th' = [th EXCEPT ![t] = Returns(t, "connect")]
    /\ dbMutex' = Unlock(t)
    /\ UNCHANGED db0

\* connect: a new engine is constructed on the data directory
Database_connect(t) ==
    /\ Inside(t, "connect")
    /\ \E now \in Times : db' = Construct(db.files, now)
    /\ connected' = TRUE
    /\ th' = [th EXCEPT ![t] = [Returns(t, "done") EXCEPT !.resp = "ok"]]
    /\ dbMutex' = Unlock(t)
    /\ UNCHANGED db0

ServerStep(t) ==
    \/ LogWorkout(t) \/ CompleteQuest(t) \/ Reconnect(t) \/ Lock(t) \/ NotConnected(t)
    \/ Database_getUser_rewards(t) \/ Database_getUser(t) \/ Database_updateUser(t)
    \/ Database_startWorkout(t) \/ Database_completeWorkout(t)
    \/ Database_getQuest(t) \/ Database_addQuest(t)
    \/ Database_disconnect(t) \/ Database_connect(t)

NextServer ==
    /\ \E t \in Threads : ServerStep(t)
    /\ UNCHANGED <<calls, last>>
    /\ TreeIdle /\ CodecIdle /\ JWTIdle /\ SyncIdle

\* main(): the database is connected before the listener takes requests
InitServer ==
    /\ bt = EmptyTree
    /\ hist = <<>>
    /\ stride = 1
    /\ repeats = 0
    /\ InitDB
    /\ dbMutex = NoThread
    /\ connected = TRUE
    /\ th = [t \in Threads |-> IdleThread]
    /\ db0 = db
    /\ NoCodec /\ NoJWT /\ NoSync

SpecServer == InitServer /\ [][NextServer]_vars

\* ------------------------------------------------------------------------
\* Reference view of the insert calls made on bt
\* ------------------------------------------------------------------------
\* the value passed to the most recent insert(k, .)
LastValue(k) ==
    hist[SetMax({j \in 1..Len(hist) : hist[j][1] = k})][2]

\* no key was passed to insert twice
DistinctInserts == Cardinality(InsertedKeys) = Len(hist)

RECURSIVE SortedSeq(_)
\* the elements of a finite set of integers in ascending order
SortedSeq(S) == IF S = {} THEN <<>> ELSE <<SetMin(S)>> \o SortedSeq(S \ {SetMin(S)})

RECURSIVE NumNodes(_)
RECURSIVE NumNodesFrom(_, _)
NumNodesFrom(node, c) ==
    IF c < Len(node.children)
    THEN NumNodes(node.children[c + 1]) + NumNodesFrom(node, c + 1)
    ELSE 0
\* nodes of the tree: 1 + one per split_child call + one per new root
NumNodes(node) == 1 + NumNodesFrom(node, 0)

\* at least two split_child calls were made (a root split and one more)
SeveralSplits == NumNodes(bt) >= 4
\* a node below the root is internal: an internal node was split
InternalSplit == ~bt.is_leaf /\ ~bt.children[1].is_leaf

\* the last insert call repeated a key that was already stored
LastWasRepeat ==
    /\ Len(hist) > 0
    /\ hist[Len(hist)][1] \in {hist[j][1] : j \in 1..(Len(hist) - 1)}

\* ------------------------------------------------------------------------
\* Claims about the tree
\* ------------------------------------------------------------------------
\* C1: after any sequence of insert calls (keys may repeat), search(k)
\* returns, for every inserted key k, the value of the most recent
\* insert(k, .).
C1_RoundTrip ==
    \A k \in InsertedKeys : search(bt, k) = LastValue(k)

\* C2: insert(k, v) for a key k that is already stored leaves
\* get_all_keys().size() unchanged and overwrites k's value, so that
\* get_all_keys() holds each key at most once.
C2_UpsertIdempotent ==
    [][ (hist' # hist /\ hist'[Len(hist')][1] \in InsertedKeys)
        => /\ get_size(bt') = get_size(bt)
           /\ search(bt', hist'[Len(hist')][1]) = hist'[Len(hist')][2]
           /\ get_size(bt') = Cardinality(Range(get_all_keys(bt'))) ]_vars

\* C3: after inserting pairwise-distinct keys in any order, get_all_keys()
\* returns exactly those keys in strictly ascending order.
C3_Sortedness ==
    DistinctInserts => get_all_keys(bt) = SortedSeq(InsertedKeys)

\* C3 witness: distinct keys only, and an internal node has been split.
C3_Witness ==
    DistinctInserts /\ InternalSplit /\ get_size(bt) = Len(hist)

\* C4: once several splits have happened, range_query(low, high), as a set,
\* is the set of the values of the stored pairs with low <= key <= high,
\* one value per stored key.
C4_RangeQuery ==
    SeveralSplits =>
        \A low \in 0..(MaxKey + 1), high \in 0..(MaxKey + 1) :
            Range(range_query(bt, low, high))
                = {LastValue(k) : k \in {x \in InsertedKeys : low <= x /\ x <= high}}

\* ------------------------------------------------------------------------
\* Claims about the database
\* ------------------------------------------------------------------------
\* what a tree holds, as seen through get_all_keys and search
Contents(root) ==
    [keys |-> get_all_keys(root),
     records |-> [k \in Range(get_all_keys(root)) |-> search(root, k)]]

\* what the database holds: the four trees and the three lists
AllContents(d) ==
    [exercises |-> Contents(d.exercise_btree), users |-> Contents(d.user_btree),
     workouts |-> Contents(d.workout_btree), quests |-> Contents(d.quest_btree),
     email_index |-> d.email_index, graph_edges |-> d.graph_edges,
     pq_entries |-> d.pq_entries]

\* C5: destroying the object and constructing a new one on the same
\* directory yields the same contents in all four trees (same keys, same
\* record per key, same counts) and the same three lists.
C5_PersistenceRoundTrip ==
    \A now \in Times :
        AllContents(Construct(Destruct(db).files, now)) = AllContents(db)

\* C6: create_user with an e-mail that is already in the e-mail index fails
\* and changes nothing: trees, lists and the seven files are as before.
C6_DuplicateEmailRejected ==
    \A username \in Usernames, email \in Emails, password \in Passwords,
       new_id \in UserIds, now \in Times :
        EmailRegistered(db, email) =>
            \E r \in {create_user(db, username, email, password, new_id, now)} :
                ~r.ok /\ r.d = db

\* C6 witness: a create_user call with a registered e-mail has failed.
C6_Witness ==
    last.op = "create_user" /\ ~last.ok /\ EmailRegistered(db, last.email)

\* C7: two create_user calls with two distinct unused e-mails both succeed,
\* and afterwards get_user_by_email resolves each e-mail to a record that
\* carries that e-mail and the user name given with it, whatever ids the
\* id scheme generates.
C7_TwoUsersResolve ==
    \A u1 \in Usernames, u2 \in Usernames, e1 \in Emails, e2 \in Emails,
       id1 \in UserIds, id2 \in UserIds, now \in Times :
        (e1 # e2 /\ ~EmailRegistered(db, e1) /\ ~EmailRegistered(db, e2)) =>
            LET r1 == create_user(db, u1, e1, 1, id1, now)
                r2 == create_user(r1.d, u2, e2, 1, id2, now)
                g1 == get_user_by_email(r2.d, e1)
                g2 == get_user_by_email(r2.d, e2)
            IN  /\ r1.ok /\ r2.ok /\ g1.ok /\ g2.ok
                /\ g1.ret.email = e1 /\ g1.ret.username = u1
                /\ g2.ret.email = e2 /\ g2.ret.username = u2

\* C8: a create_user call with an unused e-mail whose generated id is not
\* yet a key returns that non-empty id, adds exactly one user and exactly
\* one e-mail index entry (email -> id), makes get_user(id) return a record
\* with that user name and e-mail and get_user_by_email(email) the record
\* with that id, and changes no other collection.
C8_CreateUser ==
    \A username \in Usernames, email \in Emails, password \in Passwords,
       new_id \in UserIds, now \in Times :
        (~EmailRegistered(db, email) /\ ~exists(db.user_btree, new_id)) =>
            LET r == create_user(db, username, email, password, new_id, now)
                g == get_user(r.d, new_id)
                ge == get_user_by_email(r.d, email)
            IN  /\ r.ok /\ r.ret = new_id /\ StrLen(r.ret) > 0
                /\ get_size(r.d.user_btree) = get_size(db.user_btree) + 1
                /\ Range(get_all_keys(r.d.user_btree))
                       = Range(get_all_keys(db.user_btree)) \cup {new_id}
                /\ r.d.email_index
                       = Append(db.email_index, [key |-> email, value |-> new_id])
                /\ g.ok /\ g.ret.username = username /\ g.ret.email = email
                /\ ge.ok /\ ge.ret.id = new_id
                /\ r.d.exercise_btree = db.exercise_btree
                /\ r.d.workout_btree = db.workout_btree
                /\ r.d.quest_btree = db.quest_btree
                /\ r.d.graph_edges = db.graph_edges
                /\ r.d.pq_entries = db.pq_entries

\* C8 witness: a create_user call with a new id has succeeded on a user tree
\* that had been split, and both lookups find the new user.
C8_Witness ==
    /\ last.op = "create_user" /\ last.ok /\ last.new_key
    /\ ~db.user_btree.is_leaf
    /\ get_user(db, last.ret).ok
    /\ get_user_by_email(db, last.email).ok
    /\ get_user_by_email(db, last.email).ret.id = last.ret

\* C9: update_user(u) for a stored id leaves the number of users unchanged
\* and makes get_user(u.id) return exactly u, wherever the id sits in the
\* tree.
C9_UpdateUser ==
    \A user_id \in Range(get_all_keys(db.user_btree)), xp \in 0..MaxXP :
        LET u == [get_user(db, user_id).ret EXCEPT !.experience_points = xp]
            r == update_user(db, u)
            g == get_user(r.d, user_id)
        IN  /\ get_size(r.d.user_btree) = get_size(db.user_btree)
            /\ g.ok /\ g.ret = u

\* C10: start_workout(userId) returns a non-empty id w with
\* get_workout(w).user_id = userId and end time 0; after
\* complete_workout(w), get_workout(w) returns the session with the same id
\* and user_id and its end time set, and the number of workouts is
\* unchanged.  Stated for a generated id that is not yet a key.
C10_WorkoutLifecycle ==
    \A user_id \in WorkoutUsers, new_id \in WorkoutIds, t1 \in Times, t2 \in Times :
        ~exists(db.workout_btree, new_id) =>
            LET r1 == start_workout(db, user_id, new_id, t1)
                w == r1.ret
                g1 == get_workout(r1.d, w)
                r2 == complete_workout(r1.d, w, t2)
                g2 == get_workout(r2.d, w)
            IN  /\ StrLen(w) > 0
                /\ g1.ok /\ g1.ret.user_id = user_id /\ g1.ret.end_time = 0
                /\ r2.ok /\ g2.ok
                /\ g2.ret.id = w /\ g2.ret.user_id = user_id /\ g2.ret.end_time = t2
                /\ get_size(r2.d.workout_btree) = get_size(r1.d.workout_btree)

\* ids as callers may pass them: the empty string (0), stored ids and ids
\* that are not stored
AllIds == 0..(2 * MaxPre + 2)

\* C11: a lookup of an absent key raises and changes nothing: get_user,
\* get_exercise, get_workout, get_quest and complete_workout with an id that
\* is not stored, and get_user_by_email with an e-mail that is not in the
\* index, fail; complete_workout leaves trees, lists and files as they were;
\* get_next_quest on an empty snapshot fails and changes nothing.
C11_AbsentLookups ==
    /\ \A id \in AllIds :
         /\ id \notin Range(get_all_keys(db.user_btree)) => ~get_user(db, id).ok
         /\ id \notin Range(get_all_keys(db.exercise_btree))
                => ~get_exercise(db, id).ok
         /\ id \notin Range(get_all_keys(db.quest_btree)) => ~get_quest(db, id).ok
         /\ id \notin Range(get_all_keys(db.workout_btree))
                => /\ ~get_workout(db, id).ok
                   /\ \A now \in Times :
                        \E r \in {complete_workout(db, id, now)} :
                            ~r.ok /\ r.d = db
    /\ \A email \in 0..MaxEmail :
         ~EmailRegistered(db, email) => ~get_user_by_email(db, email).ok
    /\ Len(db.pq_entries) = 0
           => \E r \in {get_next_quest(db)} : ~r.ok /\ r.d = db

\* C11 witness: a complete_workout call with an id that is not stored has
\* failed, in a database whose trees all hold keys.
C11_Witness ==
    /\ last.op = "complete_workout" /\ ~last.ok
    /\ last.workout_id \notin Range(get_all_keys(db.workout_btree))
    /\ get_size(db.workout_btree) > 0

\* C12: construction on a directory without files runs the seed routine
\* once: exercises EX001 and EX002 (EX002 with prerequisite EX001), the user
\* ADMIN001, no workout, the quest Q001 with priority 1, the e-mail index
\* [admin e-mail -> ADMIN001], the graph [EX001 -> EX002, weight 1], the
\* snapshot [Q001]; get_stats is 2, 1, 0, 1, 1, 1, 1; all seven files are
\* written and hold this state.
C12_FirstRun ==
    last.op = "first_run" =>
        /\ get_all_keys(db.exercise_btree) = <<EX001, EX002>>
        /\ get_exercise(db, EX001).ret.id = EX001
        /\ get_exercise(db, EX001).ret.prerequisites = <<>>
        /\ get_exercise(db, EX002).ret.id = EX002
        /\ get_exercise(db, EX002).ret.prerequisites = <<EX001>>
        /\ get_all_keys(db.user_btree) = <<ADMIN001>>
        /\ get_user(db, ADMIN001).ret.id = ADMIN001
        /\ get_user(db, ADMIN001).ret.email = ADMIN_EMAIL
        /\ get_all_keys(db.workout_btree) = <<>>
        /\ get_all_keys(db.quest_btree) = <<Q001>>
        /\ get_quest(db, Q001).ret.id = Q001
        /\ get_quest(db, Q001).ret.priority = 1
        /\ db.email_index = <<[key |-> ADMIN_EMAIL, value |-> ADMIN001]>>
        /\ db.graph_edges = <<[from |-> EX001, to |-> EX002, weight |-> 1]>>
        /\ Len(db.pq_entries) = 1
        /\ db.pq_entries[1].quest = get_quest(db, Q001).ret
        /\ db.pq_entries[1].priority = 1
        /\ get_stats(db) = [exercise_count |-> 2, user_count |-> 1,
                            workout_count |-> 0, quest_count |-> 1,
                            email_index_size |-> 1, graph_edges |-> 1,
                            priority_queue_size |-> 1]
        /\ \A f \in FileNames : db.files[f].exists
        /\ AllContents(load_all_data(NewDatabase(db.files))) = AllContents(db)

\* C12 witness: the constructor has run on a directory without files and a
\* user is stored.
C12_Witness ==
    last.op = "first_run" /\ calls = 0 /\ exists(db.user_btree, ADMIN001)

\* every entry of the e-mail index names a user id that is stored
EmailIndexConsistent(d) ==
    \A i \in 1..Len(d.email_index) : exists(d.user_btree, d.email_index[i].value)

\* C13: in every state reached by public operations and clean restarts,
\* every e-mail index entry references a user id stored in the user tree;
\* each operation that touches users, clear_all_data and a restart keep it so.
C13_EmailIndexReferencesUsers ==
    /\ EmailIndexConsistent(db)
    /\ \A username \in Usernames, email \in Emails, password \in Passwords,
          new_id \in UserIds, now \in Times :
         EmailIndexConsistent(create_user(db, username, email, password, new_id, now).d)
    /\ \A user_id \in Range(get_all_keys(db.user_btree)), xp \in 0..MaxXP :
         EmailIndexConsistent(
             update_user(db, [get_user(db, user_id).ret
                                 EXCEPT !.experience_points = xp]).d)
    /\ \A now \in Times :
         /\ EmailIndexConsistent(clear_all_data(db, now).d)
         /\ EmailIndexConsistent(Construct(Destruct(db).files, now))

\* C13 witness: a create_user call has succeeded in a database that holds
\* several users, and its index entry names the stored user.
C13_Witness ==
    /\ last.op = "create_user" /\ last.ok /\ Len(db.email_index) >= 3
    /\ db.email_index[Len(db.email_index)].value = last.ret
    /\ exists(db.user_btree, last.ret)

\* the list is ordered by non-increasing priority
Descending(list) ==
    \A i \in 1..Len(list), j \in 1..Len(list) :
        i < j => list[i].priority >= list[j].priority

\* number of occurrences of e in the list
CountIn(e, list) == Cardinality({i \in 1..Len(list) : list[i] = e})

RECURSIVE AfterAddQuests(_, _, _)
AfterAddQuests(d, qs, now) ==
    IF qs = <<>>
    THEN {d}
    ELSE UNION {AfterAddQuests(add_quest(d, Head(qs), now, sorted).d, Tail(qs), now)
                : sorted \in sort_outcomes(add_quest_unsorted(d, Head(qs), now))}

\* the quests of the scenario: priorities 1, 5, 3 under ids not used so far
ScenarioQuests ==
    <<[NewQuest EXCEPT !.id = 2 * MaxPre + 3, !.title = 3, !.priority = 1],
      [NewQuest EXCEPT !.id = 2 * MaxPre + 4, !.title = 3, !.priority = 5],
      [NewQuest EXCEPT !.id = 2 * MaxPre + 5, !.title = 3, !.priority = 3]>>

\* C15: get_next_quest() on a non-empty snapshot returns the quest of an
\* entry whose priority is the minimum of all entries, removes exactly that
\* entry and changes nothing else in memory; after add_quest with priorities
\* 1, 5, 3 on a database as constructed the first call returns a quest of
\* priority 1; two successive calls return quests in non-decreasing priority
\* order.
C15_GetNextQuest ==
    /\ Len(db.pq_entries) > 0 =>
         \E r \in {get_next_quest(db)} :
           /\ r.ok
           /\ \E i \in 1..Len(db.pq_entries) :
                /\ db.pq_entries[i].quest = r.ret
                /\ \A j \in 1..Len(db.pq_entries) :
                     db.pq_entries[i].priority <= db.pq_entries[j].priority
                /\ r.d.pq_entries
                     = [k \in 1..(Len(db.pq_entries) - 1) |->
                          db.pq_entries[IF k < i THEN k ELSE k + 1]]
           /\ [r.d EXCEPT !.pq_entries = db.pq_entries, !.files = db.files] = db
    /\ Len(db.pq_entries) > 1 =>
         \E r1 \in {get_next_quest(db)} :
           \E r2 \in {get_next_quest(r1.d)} :
             r1.ok /\ r2.ok /\ r1.ret.priority <= r2.ret.priority
    /\ calls = 0 =>
         \A now \in Times :
           \A d \in AfterAddQuests(db, ScenarioQuests, now) :
             get_next_quest(d).ok /\ get_next_quest(d).ret.priority = 1

\* C15 witness: a get_next_quest call has returned a quest whose priority is
\* below that of an entry left in the snapshot.
C15_Witness ==
    /\ last.op = "get_next_quest" /\ last.ok /\ Len(db.pq_entries) >= 2
    /\ \A i \in 1..Len(db.pq_entries) : db.pq_entries[i].priority >= last.ret.priority
    /\ \E i \in 1..Len(db.pq_entries) : db.pq_entries[i].priority > last.ret.priority

\* the edges add_exercise appends for the exercise
PrerequisiteEdges(exercise) ==
    [j \in 1..Len(exercise.prerequisites) |->
        [from |-> exercise.prerequisites[j], to |-> exercise.id, weight |-> 1]]

\* C16: add_exercise(e) upserts e in the exercise tree (afterwards
\* get_exercise(e.id) returns e, and the number of exercises grows by one
\* exactly when e.id was not a key) and appends one edge (p -> e.id, weight
\* 1) per entry p of e.prerequisites, in order; the edges already in the
\* graph and every other collection are unchanged.
C16_AddExercise ==
    \A id \in ExerciseIds, prerequisites \in PrereqLists, now \in Times :
        LET exercise == [NewExercise(now) EXCEPT !.id = id, !.name = 3,
                                                 !.prerequisites = prerequisites]
        IN  \E r \in {add_exercise(db, exercise)} :
              /\ r.ok
              /\ get_exercise(r.d, id).ok /\ get_exercise(r.d, id).ret = exercise
              /\ get_size(r.d.exercise_btree)
                    = get_size(db.exercise_btree)
                      + (IF exists(db.exercise_btree, id) THEN 0 ELSE 1)
              /\ r.d.graph_edges = db.graph_edges \o PrerequisiteEdges(exercise)
              /\ [r.d EXCEPT !.exercise_btree = db.exercise_btree,
                             !.graph_edges = db.graph_edges,
                             !.files = db.files] = db

\* the exercises of the scenario and the edge between them
ScenarioEX001(now) == [NewExercise(now) EXCEPT !.id = EX001, !.name = 3]
ScenarioEX002(now) ==
    [NewExercise(now) EXCEPT !.id = EX002, !.name = 3, !.prerequisites = <<EX001>>]
ScenarioEdge == [from |-> EX001, to |-> EX002, weight |-> 1]
\* the database after the two add_exercise calls of the scenario
AfterScenarioExercises(d, now) ==
    add_exercise(add_exercise(d, ScenarioEX001(now)).d, ScenarioEX002(now)).d

\* C17 as stated: on a newly constructed database, add_exercise for EX001
\* (no prerequisites) and then for EX002 (prerequisite EX001) leaves exactly
\* one graph edge, EX001 -> EX002 with weight 1, and after a restart
\* get_all_exercises() returns both records.
C17_OneEdge ==
    last.op = "first_run" =>
        \A now \in Times :
            /\ AfterScenarioExercises(db, now).graph_edges = <<ScenarioEdge>>
            /\ get_all_exercises(
                   Construct(Destruct(AfterScenarioExercises(db, now)).files, now))
                 = <<ScenarioEX001(now), ScenarioEX002(now)>>

\* C17 amended: on a database that holds the seed state (as a newly
\* constructed one does), the two add_exercise calls leave two graph edges,
\* the seed's EX001 -> EX002 and the appended EX001 -> EX002, both with
\* weight 1; after a restart, which does not seed again, the graph is the
\* same and get_all_exercises() returns the two records as last added.
C17_TwoEdges ==
    AllContents(db) = AllContents(Construct(EmptyDir, 1)) =>
        \A now \in Times :
            \E d \in {AfterScenarioExercises(db, now)} :
              \E restarted \in {Construct(Destruct(d).files, now)} :
                /\ d.graph_edges = <<ScenarioEdge, ScenarioEdge>>
                /\ restarted.graph_edges = d.graph_edges
                /\ get_all_exercises(restarted)
                     = <<ScenarioEX001(now), ScenarioEX002(now)>>
                /\ get_all_keys(restarted.user_btree) = <<ADMIN001>>
                /\ Len(restarted.pq_entries) = 1

\* C17 witness: add_exercise for EX002 with prerequisite EX001 was called on
\* the seed state; the graph holds the seed's edge and the appended one.
C17_Witness ==
    /\ last.op = "add_exercise" /\ last.exercise.id = EX002
    /\ last.exercise.prerequisites = <<EX001>>
    /\ db.graph_edges = <<ScenarioEdge, ScenarioEdge>>
    /\ get_all_keys(db.exercise_btree) = <<EX001, EX002>>
    /\ get_all_exercises(db)[2] = last.exercise

\* C18: clear_all_data() called in any reachable state leaves the database,
\* in memory and in the seven files, exactly in the seed state of a first
\* run made at the same clock reading (2 exercises, the admin, no workout,
\* the quest Q001, one index entry, one edge, one snapshot entry); a second
\* call gives the same state as one call.
C18_ClearAllData ==
    \A now \in Times :
        \E r \in {clear_all_data(db, now)} :
          /\ r.ok
          /\ r.d = Construct(EmptyDir, now)
          /\ get_stats(r.d) = [exercise_count |-> 2, user_count |-> 1,
                               workout_count |-> 0, quest_count |-> 1,
                               email_index_size |-> 1, graph_edges |-> 1,
                               priority_queue_size |-> 1]
          /\ get_all_keys(r.d.exercise_btree) = <<EX001, EX002>>
          /\ get_all_keys(r.d.user_btree) = <<ADMIN001>>
          /\ get_all_keys(r.d.quest_btree) = <<Q001>>
          /\ \A f \in FileNames : r.d.files[f].exists
          /\ AllContents(load_all_data(NewDatabase(r.d.files))) = AllContents(r.d)
          /\ \A again \in Times :
               clear_all_data(r.d, again).d = clear_all_data(db, again).d

\* C18 witness: clear_all_data was called on a database that held workouts
\* and several users, and the database now holds the seed state.
C18_Witness ==
    /\ last.op = "clear_all_data" /\ last.ok
    /\ last.before.workout_count >= 2 /\ last.before.user_count >= 3
    /\ last.before.graph_edges >= 1 /\ last.before.priority_queue_size >= 3
    /\ get_stats(db).workout_count = 0 /\ get_stats(db).user_count = 1
    /\ \A f \in FileNames : db.files[f].exists

\* the operations that change the database
MutatingOps ==
    {"create_user", "update_user", "add_exercise", "start_workout",
     "complete_workout", "add_quest", "get_next_quest", "clear_all_data"}

\* the process is killed between two public operations (no destructor runs)
\* and a new object is constructed on the directory
RestartAfterKill(d, now) == Construct(d.files, now)

\* C19: every mutating operation ends with a rewrite of all seven files, so
\* after it has returned the files are what save_all_data writes for the
\* state in memory; and if the process is killed between two public
\* operations, a fresh instance on the same directory holds exactly the state
\* the last completed operation produced.
C19_KillBetweenOperations ==
    /\ (last.op \in MutatingOps /\ last.ok) => db.files = save_all_data(db).files
    /\ \A now \in Times : AllContents(RestartAfterKill(db, now)) = AllContents(db)

\* the snapshot has an entry for the quest id
InSnapshot(d, quest_id) ==
    \E i \in 1..Len(d.pq_entries) : d.pq_entries[i].quest.id = quest_id

\* C20: if the process is killed during add_quest for a new quest after
\* quests.dat has been rewritten and before priority_queue.dat has been, the
\* database constructed on the directory afterwards holds the new quest in
\* the quest tree and no entry for it in the snapshot: the snapshot is the
\* one from before the call, and loading repairs nothing.
C20_NoCrossFileAtomicity ==
    \A id \in QuestIds, priority \in Priorities, now \in Times,
       n \in QuestsWrite..(SnapshotWrite - 1) :
        (~exists(db.quest_btree, id) /\ ~InSnapshot(db, id)) =>
            LET quest == [NewQuest EXCEPT !.id = id, !.title = 3,
                                          !.priority = priority]
            IN  \A sorted \in sort_outcomes(add_quest_unsorted(db, quest, now)) :
                  \E restarted \in
                        {Construct(add_quest_killed(db, quest, now, sorted, n), now)} :
                    /\ get_quest(restarted, id).ok
                    /\ get_quest(restarted, id).ret = quest
                    /\ ~InSnapshot(restarted, id)
                    /\ restarted.pq_entries = db.pq_entries

\* C20 witness: the process was killed during add_quest for a new quest
\* between the write of quests.dat and that of priority_queue.dat; the
\* database constructed afterwards holds the quest without a snapshot entry.
C20_Witness ==
    /\ last.op = "restart_after_kill" /\ last.new_key
    /\ last.n >= QuestsWrite /\ last.n < SnapshotWrite
    /\ exists(db.quest_btree, last.quest.id)
    /\ ~InSnapshot(db, last.quest.id)
    /\ db.pq_entries = last.before /\ Len(db.pq_entries) >= 2

\* the threads that are executing inside the PersistentFitnessDatabase
InEngine == {t \in Threads : th[t].in}

\* C21: when the engine is used only through the methods of Config::Database,
\* at most one thread is inside the engine at any time: a thread is inside
\* only while it holds dbMutex, from before the engine call until the call,
\* with its rewrite of the seven files, has returned.  This covers mutating
\* and reading methods, connect and disconnect.
C21_OneThreadInEngine ==
    /\ Cardinality(InEngine) <= 1
    /\ \A t \in Threads : th[t].in => dbMutex = t
    /\ dbMutex # NoThread => th[dbMutex].in

\* C21 witness: one thread is inside updateUser while another thread has
\* reached a call of its own and waits for the mutex.
C21_Witness ==
    \E t, u \in Threads :
        /\ t # u
        /\ Inside(t, "updateUser")
        /\ th[u].at \in WrapperCalls /\ ~th[u].in
        /\ ~lock_guard(dbMutex)

\* the database with every file of its directory writable
Writable(d) ==
    [d EXCEPT !.files = [f \in FileNames |->
                            [exists |-> d.files[f].exists, data |-> d.files[f].data]]]

\* the result of a call without the directory: what the caller gets and
\* what the object holds in memory
Visible(r) == [r EXCEPT !.d = [@ EXCEPT !.files = EmptyDir]]

\* some file of the directory cannot be opened for writing
SaveFails(d) == \E f \in FileNames : CannotOpen(d.files[f])

\* C22: a persistence failure is invisible to the caller: when a data file
\* cannot be opened for writing during the save that ends a mutating
\* operation, the operation returns its normal result (the one it returns
\* when every file is writable), raises no error, and the object holds the
\* mutation in memory.
C22_SaveFailureInvisible ==
    SaveFails(db) =>
      /\ \A username \in Usernames, email \in Emails, password \in Passwords,
            new_id \in UserIds, now \in Times :
            Visible(create_user(db, username, email, password, new_id, now))
            = Visible(create_user(Writable(db), username, email, password, new_id, now))
      /\ \A id \in UserIds \cup {ADMIN001}, xp \in 0..MaxXP :
            LET user == [NewUser(1) EXCEPT !.id = id, !.experience_points = xp]
            IN  /\ Visible(update_user(db, user)) = Visible(update_user(Writable(db), user))
                /\ update_user(db, user).ok
                /\ get_user(update_user(db, user).d, id).ok
      /\ \A id \in ExerciseIds, prerequisites \in PrereqLists :
            LET exercise == [NewExercise(1) EXCEPT !.id = id, !.name = 3,
                                                   !.prerequisites = prerequisites]
            IN  Visible(add_exercise(db, exercise))
                = Visible(add_exercise(Writable(db), exercise))
      /\ \A user_id \in WorkoutUsers, new_id \in WorkoutIds, now \in Times :
            /\ Visible(start_workout(db, user_id, new_id, now))
               = Visible(start_workout(Writable(db), user_id, new_id, now))
            /\ Visible(complete_workout(db, new_id, now))
               = Visible(complete_workout(Writable(db), new_id, now))
      /\ \A id \in QuestIds, priority \in Priorities, now \in Times :
            LET quest == [NewQuest EXCEPT !.id = id, !.title = 3, !.priority = priority]
            IN  \A sorted \in sort_outcomes(add_quest_unsorted(db, quest, now)) :
                   Visible(add_quest(db, quest, now, sorted))
                   = Visible(add_quest(Writable(db), quest, now, sorted))
      /\ Visible(get_next_quest(db)) = Visible(get_next_quest(Writable(db)))

\* C22 witness: create_user has returned a new id although users.dat could
\* not be opened: the user is in memory and the file is as it was.
C22_Witness ==
    /\ last.op = "create_user" /\ last.ok /\ last.new_key
    /\ CannotOpen(db.files["users.dat"])
    /\ get_user(db, last.ret).ok
    /\ db.files["users.dat"].data # save_to_file(db.user_btree, "user").data

\* C23: read_string(write_string(s)) = s for every string shorter than
\* 1,000,000 bytes, the empty string included, and
\* read_vector_string(write_vector_string(v)) = v for every list of fewer
\* than 10,000 such strings; a length header >= 1,000,000 or a count header
\* >= 10,000 makes the read return an empty value, without an error.
C23_CodecRoundTrip ==
    /\ \A s \in StringSamples :
          s < 1000000 => read_string(write_string(s), 1).val = s
    /\ (codec.op = "read_string" /\ codec.intact /\ vec[1] < 1000000)
          => codec.val = vec[1]
    /\ (codec.op = "read_vector_string" /\ codec.intact /\ Len(vec) < 10000
        /\ \A i \in 1..Len(vec) : vec[i] < 1000000)
          => codec.val = vec
    /\ (codec.op = "read_string" /\ os[1].size >= 1000000) => codec.val = 0
    /\ (codec.op = "read_vector_string" /\ os[1].size >= 10000) => codec.val = <<>>

\* C23 witness: a list of two strings, one of 999,999 bytes and one empty,
\* has been written and read back unchanged.
C23_Witness ==
    /\ codec.op = "read_vector_string" /\ codec.intact
    /\ Len(vec) = 2 /\ vec[1] = 999999 /\ vec[2] = 0
    /\ codec.val = vec

\* ------------------------------------------------------------------------
\* Loading a truncated collection file
\* ------------------------------------------------------------------------

\* values an uninitialised size_t can hold when a failed read leaves it
JunkSamples == {0, 1, MAX_STRING_LEN}

\* the stream over a file of which only the first k tokens are left: every
\* later read fails.  A string whose length header is the last token left
\* has been resized to that length before its bytes fail to arrive.
truncate(data, k, junk, now) ==
    SubSeq(data, 1, k)
    \o <<EofTok(junk, IF "size" \in DOMAIN data[k] THEN data[k].size ELSE junk, now)>>
    \o [i \in 1..(3 * Len(data)) |-> EofTok(junk, junk, now)]

\* the lengths at which a file of this tree ends after a whole record
RecordEnds(root, kind) ==
    LET keys == get_all_keys(root)
    IN  {1 + Len(save_records(root, kind, SubSeq(keys, 1, i), 1)) : i \in 0..Len(keys)}

\* the lengths at which the file ends in the middle of a record
MidRecord(root, kind) ==
    (1..Len(save_to_file(root, kind).data)) \ RecordEnds(root, kind)

TreeKinds == <<"exercise", "user", "workout", "quest">>

TreeOf(d, t) ==
    CASE t = 1 -> d.exercise_btree
      [] t = 2 -> d.user_btree
      [] t = 3 -> d.workout_btree
      [] t = 4 -> d.quest_btree

\* C24: loading a collection file that was truncated in the middle of a
\* record completes, and every record of the loaded collection is equal to
\* a record of the collection that was saved.
C24_TruncatedLoadIsPartial ==
    \A t \in 1..Len(TreeKinds), junk \in JunkSamples, now \in Times :
        \A k \in MidRecord(TreeOf(db, t), TreeKinds[t]) :
            \E loaded \in {load_from_file(
                               EmptyTree,
                               [exists |-> TRUE,
                                data |-> truncate(save_to_file(TreeOf(db, t), TreeKinds[t]).data,
                                                  k, junk, now)],
                               TreeKinds[t])} :
                \A key \in Range(get_all_keys(loaded)) :
                    /\ exists(TreeOf(db, t), key)
                    /\ search(loaded, key) = search(TreeOf(db, t), key)

\* ------------------------------------------------------------------------
\* Anti-cheat limits
\* ------------------------------------------------------------------------

MAX_WORKOUTS_PER_DAY == 10
MIN_REST_BETWEEN_WORKOUTS == 1800

\* the logWorkout request of thread t was answered 201 Created
Logged(t) ==
    th[t].handler = "logWorkout" /\ th[t].at = "done" /\ th[t].resp = "ok"

\* the accepted logWorkout requests whose workout is stored for this user
LoggedFor(user_id) ==
    {t \in Threads :
        /\ Logged(t)
        /\ th[t].user_id = user_id
        /\ get_workout(db, th[t].workout_id).ok
        /\ get_workout(db, th[t].workout_id).ret.user_id = user_id}

\* C25: the workouts a user has recorded through logWorkout are at most
\* MAX_WORKOUTS_PER_DAY in one day, and no two of them start less than
\* MIN_REST_BETWEEN_WORKOUTS seconds apart.
C25_AntiCheatLimits ==
    \A user_id \in WorkoutUsers :
        /\ Cardinality({th[t].workout_id : t \in LoggedFor(user_id)})
               <= MAX_WORKOUTS_PER_DAY
        /\ \A t, u \in LoggedFor(user_id) :
             th[t].workout_id # th[u].workout_id =>
                \E a \in {get_workout(db, th[t].workout_id).ret.start_time},
                   b \in {get_workout(db, th[u].workout_id).ret.start_time} :
                    \/ a - b >= MIN_REST_BETWEEN_WORKOUTS
                    \/ b - a >= MIN_REST_BETWEEN_WORKOUTS

\* ------------------------------------------------------------------------
\* JWT: generateToken and verifyToken.  A string is a sequence of
\* characters; the base64 text of a signature is one symbol that names
\* the key and the message of the HMAC.
\* ------------------------------------------------------------------------

JWT_EXPIRATION_HOURS == 24
\* Config::Environment::getJWTSecret()
JWT_SECRET == "JWT_SECRET"

Digits == <<"0", "1", "2", "3", "4", "5", "6", "7", "8", "9">>

RECURSIVE to_string(_)
\* payload << expiry: the decimal digits of a time_t that is not negative
to_string(n) ==
    IF n < 10
    THEN <<Digits[n + 1]>>
    ELSE to_string(n \div 10) \o <<Digits[(n % 10) + 1]>>

IsDigit(c) == \E d \in 1..10 : Digits[d] = c

DigitValue(c) == (CHOOSE d \in 1..10 : Digits[d] = c) - 1

RECURSIVE skip_space(_)
skip_space(str) ==
    IF str # <<>> /\ str[1] = " " THEN skip_space(Tail(str)) ELSE str

RECURSIVE stoll_digits(_, _, _)
\* the digits std::stoll consumes: n of them so far, with value val
stoll_digits(str, n, val) ==
    IF str # <<>> /\ IsDigit(str[1])
    THEN stoll_digits(Tail(str), n + 1, 10 * val + DigitValue(str[1]))
    ELSE [ok |-> n > 0, val |-> val]

\* std::stoll(str): white space, an optional sign, then the longest run of
\* digits; what follows the digits is ignored; no digit throws
stoll(str) ==
    LET s == skip_space(str)
        signed == s # <<>> /\ s[1] \in {"+", "-"}
        r == stoll_digits(IF signed THEN Tail(s) ELSE s, 0, 0)
    IN  [ok |-> r.ok, val |-> IF signed /\ s[1] = "-" THEN 0 - r.val ELSE r.val]

npos == 0

\* str.find(c): the first position of c, npos when there is none
find(str, c) ==
    IF \E i \in 1..Len(str) : str[i] = c
    THEN CHOOSE i \in 1..Len(str) : str[i] = c /\ \A j \in 1..(i - 1) : str[j] # c
    ELSE npos

\* the base64 text of HMAC(EVP_sha256(), key, message)
HMAC(key, message) == ToString(<<"HMAC", key, message>>)

generateToken(userId, now) ==
    LET expiry == now + JWT_EXPIRATION_HOURS * 3600
        payload == userId \o <<":">> \o to_string(expiry)
    IN  payload \o <<".">> \o <<HMAC(JWT_SECRET, payload)>>

JWTError(what) == [ok |-> FALSE, what |-> what, ret |-> <<>>]

\* the part of verifyToken after the colon was found
verify_payload(payload, colonPos, now) ==
    LET userId == SubSeq(payload, 1, colonPos - 1)
        expiry == stoll(SubSeq(payload, colonPos + 1, Len(payload)))
    IN  IF ~expiry.ok THEN JWTError("Invalid expiry timestamp in token")
        ELSE IF now > expiry.val THEN JWTError("Token expired")
        ELSE [ok |-> TRUE, what |-> "", ret |-> userId]

verifyToken(tok, now) ==
    LET firstDot == find(tok, ".")
        payload == SubSeq(tok, 1, firstDot - 1)
        colonPos == find(payload, ":")
    IN  IF firstDot = npos THEN JWTError("Invalid token format - no dot found")
        ELSE IF colonPos = npos THEN JWTError("Invalid token payload - no colon found")
        ELSE verify_payload(payload, colonPos, now)

\* user ids as create_user and the seed routine make them
JWTUsers == {<<"A", "1">>, <<"U", "2">>}

\* the clock advances by half the lifetime of a token
TickSeconds == JWT_EXPIRATION_HOURS * 1800

\* signatures a client that does not know the secret can write
ForgedSignatures(payload) == {<<>>, <<"x">>, <<HMAC("guess", payload)>>}

InitJWT ==
    /\ bt = EmptyTree
    /\ hist = <<>>
    /\ stride = 1
    /\ repeats = 0
    /\ db = NewDatabase(EmptyDir)
    /\ calls = 0
    /\ last = NoCall
    /\ NoServer /\ NoCodec /\ NoJWT /\ NoSync

\* the server issues a token (login, register)
GenerateToken ==
    /\ jwt.op = "none"
    /\ \E userId \in JWTUsers :
         /\ token' = generateToken(userId, clock)
         /\ jwt' = [op |-> "generateToken", userId |-> userId, issued |-> clock]
    /\ UNCHANGED clock

\* a client replaces the user id of its token and keeps the rest
AlterPayload ==
    /\ jwt.op = "generateToken"
    /\ \E userId \in JWTUsers \ {jwt.userId} :
         /\ token' = userId \o SubSeq(token, find(token, ":"), Len(token))
         /\ jwt' = [op |-> "alter", userId |-> userId, issued |-> jwt.issued]
    /\ UNCHANGED clock

\* a client writes a token of its own: any user id, any expiry, any signature
ForgeToken ==
    /\ jwt.op = "none"
    /\ \E userId \in JWTUsers, expiry \in {clock, clock + 2 * TickSeconds} :
         \E signature \in ForgedSignatures(userId \o <<":">> \o to_string(expiry)) :
            /\ token' = userId \o <<":">> \o to_string(expiry) \o <<".">> \o signature
            /\ jwt' = [op |-> "forge", userId |-> userId, issued |-> clock]
    /\ UNCHANGED clock

\* time passes
Tick ==
    /\ clock < MaxClock * TickSeconds
    /\ jwt.op # "verifyToken"
    /\ clock' = clock + TickSeconds
    /\ UNCHANGED <<token, jwt>>

\* a request arrives with the token
VerifyToken ==
    /\ jwt.op \in {"generateToken", "alter", "forge"}
    /\ jwt' = [op |-> "verifyToken", from |-> jwt.op, userId |-> jwt.userId,
               issued |-> jwt.issued, r |-> verifyToken(token, clock)]
    /\ UNCHANGED <<token, clock>>

NextJWT ==
    /\ \/ GenerateToken \/ AlterPayload \/ ForgeToken \/ Tick \/ VerifyToken
    /\ UNCHANGED <<db, calls, last>>
    /\ TreeIdle /\ ServerIdle /\ CodecIdle /\ SyncIdle

SpecJWT == InitJWT /\ [][NextJWT]_vars

\* the signature part of the token is the HMAC of its payload under the
\* secret of the server
Signed(tok) ==
    /\ find(tok, ".") # npos
    /\ SubSeq(tok, find(tok, ".") + 1, Len(tok))
           = <<HMAC(JWT_SECRET, SubSeq(tok, 1, find(tok, ".") - 1))>>

\* C26: verifyToken returns the user id of a token issued by generateToken
\* until the token expires, and it rejects a token whose signature part is
\* not the HMAC of its payload under the secret of the server.
C26_VerifyToken ==
    jwt.op = "verifyToken" =>
        /\ (jwt.from = "generateToken"
              /\ clock <= jwt.issued + JWT_EXPIRATION_HOURS * 3600)
               => (jwt.r.ok /\ jwt.r.ret = jwt.userId)
        /\ ~Signed(token) => ~jwt.r.ok

\* ------------------------------------------------------------------------
\* Shape of the tree
\* ------------------------------------------------------------------------

RECURSIVE NodesOf(_)
\* the nodes of the subtree of node
NodesOf(node) ==
    {node} \cup UNION {NodesOf(node.children[i]) : i \in 1..Len(node.children)}

Ascending(node) ==
    \A i \in 1..(Len(node.keys) - 1) : node.keys[i][1] < node.keys[i + 1][1]

RECURSIVE reaches_full(_, _)
\* insert_non_full(node, key, _) is called on a node that holds MAX_KEYS
\* keys, at node or further down the path it takes
reaches_full(node, key) ==
    \/ Len(node.keys) = MAX_KEYS
    \/ /\ ~node.is_leaf
       /\ LET i0 == descend_index(node, key)
              full == i0 < Len(node.children)
                      /\ Len(node.children[i0 + 1].keys) = MAX_KEYS
              node1 == IF full THEN split_child(node, i0) ELSE node
              i == IF full /\ key > node1.keys[i0 + 1][1] THEN i0 + 1 ELSE i0
          IN  i < Len(node1.children) /\ reaches_full(node1.children[i + 1], key)

\* insert(key, _) descends into a node that holds MAX_KEYS keys
insert_reaches_full(root, key) ==
    IF Len(root.keys) = MAX_KEYS
    THEN reaches_full(split_child([is_leaf |-> FALSE, keys |-> <<>>,
                                   children |-> <<root>>], 0), key)
    ELSE reaches_full(root, key)

\* C27: in every state reached by insert and clear, every node holds at
\* most MAX_KEYS keys in ascending order, every node other than the root
\* holds at least MIN_KEYS keys, every internal node has one more child
\* than keys, and no insert descends into a node that holds MAX_KEYS keys.
C27_NodeShape ==
    /\ \A n \in NodesOf(bt) :
         /\ Len(n.keys) <= MAX_KEYS
         /\ Ascending(n)
         /\ ~n.is_leaf => Len(n.children) = Len(n.keys) + 1
    /\ \A i \in 1..Len(bt.children) :
         \A n \in NodesOf(bt.children[i]) : Len(n.keys) >= MIN_KEYS
    /\ \A key \in 1..MaxKey : ~insert_reaches_full(bt, key)

\* C27 witness: the tree has three levels (an internal node below the
\* root), some node is full, and a key has been inserted twice.
C27_Witness ==
    /\ \E i \in 1..Len(bt.children) : ~bt.children[i].is_leaf
    /\ \E n \in NodesOf(bt) : Len(n.keys) = MAX_KEYS
    /\ repeats > 0

\* ------------------------------------------------------------------------
\* Concurrent read-modify-write of a user
\* ------------------------------------------------------------------------

\* the handler of thread t has read the user, added its reward and written
\* the user back, and has sent its response
Rewarded(t) ==
    /\ th[t].handler \in {"logWorkout", "completeQuest"}
    /\ th[t].at = "done" /\ th[t].resp = "ok"

RECURSIVE SumXP(_)
\* the sum of the rewards of the handlers of the threads in S
SumXP(S) ==
    IF S = {} THEN 0
    ELSE LET t == CHOOSE u \in S : TRUE
         IN  th[t].xp + SumXP(S \ {t})

\* C28: when every request handler has rewarded the same user (getUser,
\* add the reward, updateUser) and the user tree is a single leaf that was
\* not full, so that every insert of a stored key overwrites in place, the
\* stored experience_points have grown by the sum of the rewards.
C28_NoLostUpdate ==
    \A user_id \in WorkoutUsers :
        (/\ \A t \in Threads : Rewarded(t) /\ th[t].user_id = user_id
         /\ db0.user_btree.is_leaf
         /\ Len(db0.user_btree.keys) < MAX_KEYS)
        => get_user(db, user_id).ret.experience_points
               = get_user(db0, user_id).ret.experience_points + SumXP(Threads)

\* ------------------------------------------------------------------------
\* The e-mail index and the user tree
\* ------------------------------------------------------------------------

\* the records held by the nodes of a tree
StoredRecords(root) ==
    UNION {{n.keys[i][2] : i \in 1..Len(n.keys)} : n \in NodesOf(root)}

\* every stored user is found through the e-mail index under its e-mail
UsersReachableByEmail(d) ==
    \A u \in StoredRecords(d.user_btree) :
        \E r \in {get_user_by_email(d, u.email)} : r.ok /\ r.ret.id = u.id

\* C29: in every state reached by create_user, update_user, clear_all_data
\* and clean restarts, get_user_by_email(u.email) succeeds for each stored
\* user u and returns the record with id u.id; each of these operations
\* keeps it so.
C29_UsersReachableByEmail ==
    /\ UsersReachableByEmail(db)
    /\ \A username \in Usernames, email \in Emails, password \in Passwords,
          new_id \in UserIds, now \in Times :
         UsersReachableByEmail(create_user(db, username, email, password, new_id, now).d)
    /\ \A u \in StoredRecords(db.user_btree), email \in Emails, xp \in 0..MaxXP :
         UsersReachableByEmail(
             update_user(db, [u EXCEPT !.email = email, !.experience_points = xp]).d)
    /\ \A now \in Times :
         /\ UsersReachableByEmail(clear_all_data(db, now).d)
         /\ UsersReachableByEmail(Construct(Destruct(db).files, now))

\* C30: the priority snapshot holds at most one entry per quest id (add_quest
\* for a stored quest id replaces the entry of that quest), so the quest
\* get_next_quest returns is the copy stored in the quest tree.
C30_OneSnapshotEntryPerQuest ==
    /\ \A i, j \in 1..Len(db.pq_entries) :
         i # j => db.pq_entries[i].quest.id # db.pq_entries[j].quest.id
    /\ \E r \in {get_next_quest(db)} :
         (r.ok /\ get_quest(db, r.ret.id).ok) => r.ret \in StoredRecords(db.quest_btree)

\* ------------------------------------------------------------------------
\* Construction on a directory that lacks some of its files
\* ------------------------------------------------------------------------

\* the files in the order clear_all_data removes them
ClearOrder == <<"exercises.dat", "users.dat", "workouts.dat", "quests.dat",
                "email_index.dat", "graph.dat", "priority_queue.dat">>

\* the directory after the loop of clear_all_data has removed n files
remove_first(files, n) ==
    [f \in FileNames |->
        IF \E k \in 1..n : ClearOrder[k] = f THEN NoFile ELSE files[f]]

\* the directory without one of its files
remove_file(files, file) == [files EXCEPT ![file] = NoFile]

\* the constructor on this directory runs initialize_sample_data
Seeds(files) == get_size(load_all_data(NewDatabase(files)).user_btree) = 0

\* the three lists hold the entries of the seed routine and nothing else
OnlySeedEntries(d) ==
    /\ d.email_index = <<[key |-> ADMIN_EMAIL, value |-> ADMIN001]>>
    /\ d.graph_edges = <<[from |-> EX001, to |-> EX002, weight |-> 1]>>
    /\ Len(d.pq_entries) = 1 /\ d.pq_entries[1].quest.id = Q001

\* C31: whenever construction runs the seed routine, the e-mail index, the
\* graph list and the priority snapshot each hold exactly the seed entry,
\* also on a directory left by a kill in the loop of clear_all_data or on one
\* whose users.dat is missing.
C31_SeedOnlyEntries ==
    \A now \in Times :
        /\ \A n \in 0..NumFiles :
             Seeds(remove_first(db.files, n))
                 => OnlySeedEntries(Construct(remove_first(db.files, n), now))
        /\ Seeds(remove_file(db.files, "users.dat"))
               => OnlySeedEntries(Construct(remove_file(db.files, "users.dat"), now))

RECURSIVE LeafDepths(_, _)
\* the depths of the leaves below node, node itself being at depth
LeafDepths(node, depth) ==
    IF node.is_leaf
    THEN {depth}
    ELSE UNION {LeafDepths(node.children[i], depth + 1) : i \in 1..Len(node.children)}

\* C32: in every state reached by insert and clear all leaves are at the
\* same depth, and get_height() equals the depth of every leaf.
C32_Balanced ==
    LeafDepths(bt, 1) = {get_height(bt)}

\* C32 witness: the tree has three levels and six leaves or more, reached
\* through different internal nodes.
C32_Witness ==
    /\ get_height(bt) = 3
    /\ Len(bt.children) >= 2
    /\ Cardinality({n \in NodesOf(bt) : n.is_leaf}) >= 6

\* C33: exists(k) is true exactly when k has been inserted since
\* construction or the last clear(), and search(k) raises the not-found
\* failure exactly when exists(k) is false.  Both are const members that
\* read the nodes and write only their local value.
C33_ExistsAndSearch ==
    \A k \in 0..(MaxKey + 1) :
        /\ exists(bt, k) <=> k \in InsertedKeys
        /\ search_throws(bt, k) <=> ~exists(bt, k)
        /\ ~search_throws(bt, k) => search(bt, k) \in {hist[j][2] : j \in 1..Len(hist)}

\* C33 witness: the tree has been split, it holds a key twice, and some key
\* of the key range has not been inserted.
C33_Witness ==
    /\ ~bt.is_leaf
    /\ get_size(bt) > Cardinality(InsertedKeys)
    /\ InsertedKeys # 1..MaxKey

\* C34: get_user, get_user_by_email, get_exercise, get_all_exercises,
\* get_workout, get_quest, get_all_quests, get_exercise_graph and get_stats
\* change no tree and no list and write no file, whether they succeed or
\* fail.
C34_ReadsChangeNothing ==
    [][(calls' = calls + 1 /\ last'.op \in ReadOps) => db' = db]_vars

\* C34 witness: a lookup has failed on a database that holds several users,
\* workouts and quests.
C34_Witness ==
    /\ last.op \in {"get_user", "get_user_by_email", "get_workout"} /\ ~last.ok
    /\ get_size(db.user_btree) >= 3 /\ get_size(db.workout_btree) >= 2
    /\ Len(db.pq_entries) >= 2

\* ------------------------------------------------------------------------
\* Two database objects on one directory
\* ------------------------------------------------------------------------

\* the object d sees the directory as another object has left it
on_directory(d, files) == [d EXCEPT !.files = files]

\* the directory after: a second object is constructed on the directory of
\* d, then d creates a user, then the second object is destroyed
second_destroyed_after_create(d, username, email, password, new_id, now) ==
    Destruct(on_directory(Construct(d.files, now),
                          create_user(d, username, email, password, new_id, now).d.files)).files

\* C35: with two objects constructed on the same directory, a user that one
\* of them has created and saved is still in users.dat after the other
\* object has been destroyed.
C35_TeardownKeepsRecords ==
    \A username \in Usernames, email \in Emails, password \in Passwords,
       new_id \in UserIds, now \in Times :
        (/\ create_user(db, username, email, password, new_id, now).ok
         /\ ~exists(db.user_btree, new_id))
        => exists(load_all_data(NewDatabase(
                      second_destroyed_after_create(db, username, email, password,
                                                    new_id, now))).user_btree,
                  new_id)

\* ------------------------------------------------------------------------
\* test_persistence
\* ------------------------------------------------------------------------

\* "TestUser", "test@test.com", "password"
TEST_USERNAME == 8
TEST_EMAIL == 13
TEST_PASSWORD == 9

\* the part of test_persistence after create_user has returned: new_db is
\* constructed on the directory, asked for the user, and destroyed when the
\* function returns
test_read_back(created, now) ==
    [d |-> on_directory(created, Destruct(Construct(created.files, now)).files),
     ok |-> TRUE,
     ret |-> \E loaded \in {get_user_by_email(Construct(created.files, now), TEST_EMAIL)} :
                 loaded.ok /\ loaded.ret.username = TEST_USERNAME]

\* test_persistence: any exception is caught and makes it return false
test_persistence(d, new_id, now) ==
    IF ~create_user(d, TEST_USERNAME, TEST_EMAIL, TEST_PASSWORD, new_id, now).ok
    THEN [d |-> d, ok |-> TRUE, ret |-> FALSE]
    ELSE test_read_back(
             create_user(d, TEST_USERNAME, TEST_EMAIL, TEST_PASSWORD, new_id, now).d, now)

\* C36: every call of test_persistence() returns true, a second call on the
\* same database included (the ids generated for the test user are new).
C36_TestPersistenceRepeatable ==
    \A id1, id2 \in UserIds, now \in Times :
        (/\ ~exists(db.user_btree, id1) /\ ~exists(db.user_btree, id2)
         /\ id1 # id2)
        => /\ test_persistence(db, id1, now).ret
           /\ test_persistence(test_persistence(db, id1, now).d, id2, now).ret

\* ---------------------------------------------------------------------
\* GameSyncEngine (src/GameSyncEngine.hpp)
\* ---------------------------------------------------------------------

\* enum class SyncPriority
CRITICAL == 0

HIGH == 1

MEDIUM == 2

LOW == 3

BACKGROUND == 4

\* a SyncJob: jobId is the number of the push that made it, throws tells
\* whether its task ends by an exception
SyncJob(jobId, priority, throws) ==
    [jobId |-> jobId, priority |-> priority, throws |-> throws]

NoJob == SyncJob(0, CRITICAL, FALSE)

\* SyncJob::operator< with the comparison turned round
SyncJob_less_ascending(a, b) == a.priority < b.priority

\* SyncJob::operator<
SyncJob_less(a, b) == a.priority > b.priority

\* std::priority_queue::top: an element no other element is greater than;
\* the heap fixes no order among elements that compare equal
top(queue) == {m \in queue : \A x \in queue : ~SyncJob_less(m, x)}

\* SyncPriorityQueue::isEmpty
isEmpty(queue) == queue = {}

\* SyncPriorityQueue::wasProcessed
wasProcessed(s, jobId) == jobId \in s.processedJobs

\* the worker enters pop whatever the queue holds
may_pop_always(queue) == TRUE

\* workerLoop: the test that guards the call of pop
may_pop(queue) == ~isEmpty(queue)

\* GameSyncEngine::GameSyncEngine: running(false), no thread, empty queue
NewEngine ==
    [worker |-> "unborn", main |-> "idle", running |-> FALSE,
     queue |-> {}, processedJobs |-> {}, job |-> NoJob,
     executed |-> <<>>, pushed |-> 0, accepted |-> {}]

InitSync ==
    /\ bt = EmptyTree
    /\ hist = <<>>
    /\ stride = 1
    /\ repeats = 0
    /\ db = NewDatabase(EmptyDir)
    /\ calls = 0
    /\ last = NoCall
    /\ NoServer /\ NoCodec /\ NoJWT
    /\ sync = NewEngine

\* the priorities and outcomes of the jobs pushed straight to the queue
PushPriorities == {HIGH, BACKGROUND}

\* the worker thread exists and has not been joined
joinable(s) == s.worker \notin {"unborn", "joined"}

\* how often the task of a job has run
Executions(s, jobId) ==
    Cardinality({i \in 1..Len(s.executed) : s.executed[i] = jobId})

SyncFrame ==
    /\ UNCHANGED <<bt, hist, stride, repeats, db, calls, last>>
    /\ ServerIdle /\ CodecIdle /\ JWTIdle

\* GameSyncEngine::start, on an engine that has no thread to join
Start ==
    /\ sync.main \in {"idle", "stopped"}
    /\ ~joinable(sync)
    /\ sync' = [sync EXCEPT !.running = TRUE, !.worker = "while", !.main = "idle"]
    /\ SyncFrame

\* SyncPriorityQueue::push
push(s, job) == [s EXCEPT !.queue = @ \cup {job}, !.pushed = @ + 1]

\* GameSyncEngine::syncWorkout: a CRITICAL job whose task prints a line
SyncWorkout ==
    /\ sync.pushed < MaxJobs
    /\ sync' = [push(sync, SyncJob(sync.pushed + 1, CRITICAL, FALSE))
                  EXCEPT !.accepted = IF sync.running /\ joinable(sync)
                                      THEN @ \cup {sync.pushed + 1} ELSE @]
    /\ SyncFrame

\* a job of another priority pushed to the queue, its task may throw
Push ==
    /\ sync.pushed < MaxJobs
    /\ \E priority \in PushPriorities, throws \in BOOLEAN :
         sync' = push(sync, SyncJob(sync.pushed + 1, priority, throws))
    /\ SyncFrame

\* workerLoop: while (running)
WorkerWhile ==
    /\ sync.worker = "while"
    /\ sync' = [sync EXCEPT !.worker = IF sync.running THEN "isEmpty" ELSE "exited"]
    /\ SyncFrame

\* workerLoop: if (!syncQueue.isEmpty())
WorkerIsEmpty ==
    /\ sync.worker = "isEmpty"
    /\ sync' = [sync EXCEPT !.worker = IF may_pop(sync.queue) THEN "pop" ELSE "sleep"]
    /\ SyncFrame

\* SyncPriorityQueue::pop: waits until the queue is not empty, takes top
WorkerPop ==
    /\ sync.worker = "pop"
    /\ ~isEmpty(sync.queue)
    /\ \E job \in top(sync.queue) :
         sync' = [sync EXCEPT !.queue = @ \ {job}, !.job = job, !.worker = "task"]
    /\ SyncFrame

\* workerLoop: job.task(); an exception is caught and markProcessed skipped
WorkerTask ==
    /\ sync.worker = "task"
    /\ sync' = [sync EXCEPT !.executed = Append(@, sync.job.jobId),
                            !.worker = IF sync.job.throws THEN "sleep" ELSE "mark"]
    /\ SyncFrame

\* SyncPriorityQueue::markProcessed
WorkerMark ==
    /\ sync.worker = "mark"
    /\ sync' = [sync EXCEPT !.processedJobs = @ \cup {sync.job.jobId},
                            !.worker = "sleep"]
    /\ SyncFrame

\* workerLoop: sleep_for(100ms)
WorkerSleep ==
    /\ sync.worker = "sleep"
    /\ sync' = [sync EXCEPT !.worker = "while"]
    /\ SyncFrame

\* GameSyncEngine::stop: running = false, then join when joinable
Stop ==
    /\ sync.main = "idle"
    /\ sync' = [sync EXCEPT !.running = FALSE,
                            !.main = IF joinable(sync) THEN "join" ELSE "stopped"]
    /\ SyncFrame

\* stop: workerThread.join() returns once the worker has left workerLoop
Join ==
    /\ sync.main = "join"
    /\ sync.worker = "exited"
    /\ sync' = [sync EXCEPT !.worker = "joined", !.main = "stopped"]
    /\ SyncFrame

Worker ==
    \/ WorkerWhile
    \/ WorkerIsEmpty
    \/ WorkerPop
    \/ WorkerTask
    \/ WorkerMark
    \/ WorkerSleep

NextSync ==
    \/ Start
    \/ SyncWorkout
    \/ Push
    \/ Worker
    \/ Stop
    \/ Join

SpecSync == InitSync /\ [][NextSync]_vars

\* the scheduler runs the worker thread and the joining thread again and again
SpecSyncLive == SpecSync /\ WF_vars(Worker) /\ WF_vars(Join)

\* C37: the job pop hands to the worker is one with the smallest priority
\* value among the jobs queued at that moment, CRITICAL before all others
C37_MostUrgentFirst ==
    [][(sync.worker = "pop" /\ sync'.worker = "task")
         => /\ \A x \in sync.queue : sync'.job.priority <= x.priority
            /\ (\E x \in sync.queue : x.priority = CRITICAL)
                 => sync'.job.priority = CRITICAL]_vars

\* a job pushed later overtook a less urgent one that is still queued
C37_Witness ==
    /\ sync.worker = "task"
    /\ \E x \in sync.queue : /\ x.priority > sync.job.priority
                             /\ x.jobId < sync.job.jobId

\* C38: a call of stop that waits in join returns
C38_StopTerminates == (sync.main = "join") ~> (sync.main = "stopped")

\* stop has returned after the worker ran a task, with a job left in the queue
C38_Witness ==
    /\ sync.main = "stopped"
    /\ sync.worker = "joined"
    /\ sync.executed # <<>>
    /\ ~isEmpty(sync.queue)

\* C39: every job syncWorkout pushed to a started engine is in the end
\* executed exactly once and marked processed
C39_EveryJobProcessed ==
    \A jobId \in 1..MaxJobs :
        (jobId \in sync.accepted)
            ~> (wasProcessed(sync, jobId) /\ Executions(sync, jobId) = 1)

====
